---- MODULE Spec2Model ----
(***************************************************************************)
(* A model of the retrieval pipeline of SupportGenieAI: the chunker of     *)
(* KnowledgeBaseService, the EmbeddingService with its fallback embedding, *)
(* the InMemoryVectorStore and the KnowledgeBaseService orchestration.     *)
(*                                                                         *)
(* Strings are sequences of UTF-16 code units (integers), as charCodeAt    *)
(* sees them.  An array of numbers (an embedding) is a record              *)
(* [dim, nz, den2]: dim is the array's length, and the element at index i  *)
(* (0-based) is nz[i] / sqrt(den2) for i in DOMAIN nz and 0 elsewhere, so  *)
(* that the L2-normalised vectors are held exactly.                        *)
(***************************************************************************)
EXTENDS Integers, Sequences, FiniteSets, TLC

VARIABLES
    \* ---- chunker (KnowledgeBaseService.chunkDocument) ----
    content,        \* document.content handed to chunkDocument
    chunkConfig,    \* this.chunkConfig
    chunkPc,        \* "ready" | "done"
    chunked,        \* the outcome of chunkDocument
    \* ---- EmbeddingService ----
    provider,       \* this.provider: "openai" | "anthropic" | "none"
    call,           \* per caller, the embed / embedBatch call in progress
    \* ---- InMemoryVectorStore ----
    chunks,         \* this.chunks: id -> DocumentChunk
    tenantIndex,    \* this.tenantIndex: tenantId -> ids, in insertion order
    \* ---- KnowledgeBaseService ----
    documents,      \* this.documents, in insertion order
    nextUuid,       \* the number of uuidv4() values handed out
    ingest,         \* the ingest call in progress
    search,         \* the search call in progress
    out,            \* what the last completed operation returned or threw
    \* ---- SessionService, AIService and the chat router ----
    sessions,       \* the sessions map: sessionId -> ChatSession
    now,            \* Date.now(), in milliseconds since the process started
    preferredProvider,  \* AIService.preferredProvider: "claude" | "openai" | "none"
    chat            \* the chat request in progress

chunkVars == <<content, chunkConfig, chunkPc, chunked>>
embedVars == <<provider, call>>
storeVars == <<chunks, tenantIndex>>
kbVars    == <<documents, nextUuid, ingest, search, out>>
chatVars  == <<sessions, now, preferredProvider, chat>>

vars == <<content, chunkConfig, chunkPc, chunked, provider, call,
          chunks, tenantIndex, documents, nextUuid, ingest, search, out,
          sessions, now, preferredProvider, chat>>

\* What the actions of one component leave alone.
besidesChunker == <<embedVars, storeVars, kbVars, chatVars>>
besidesEmbedding == <<chunkVars, storeVars, kbVars, chatVars>>

-----------------------------------------------------------------------------
(* Bounds of the model *)

MaxTextLen == 5
MaxChunkSizeBound == 3
MaxOverlapBound == 2
MaxEmbedTextLen == 4
MaxBatchSize == 2
MaxUuid == 4
MaxDocs == 2
MaxUpsertBatch == 2
MaxDirectUuid == 1
MaxDeleteIds == 2
MaxSessionUuid == 22
MaxChatUuid == 6
MaxSources == 5
MaxTicks == 1

-----------------------------------------------------------------------------
(* String helpers, as the JavaScript built-ins compute them *)

\* White space as String.prototype.trim sees it.
IsWhitespace(c) ==
    c \in ({9, 10, 11, 12, 13, 32, 160, 5760, 8232, 8233, 8239, 8287, 12288, 65279}
           \cup (8192..8202))

RECURSIVE TrimStart(_)
TrimStart(s) ==
    IF s # <<>> /\ IsWhitespace(Head(s)) THEN TrimStart(Tail(s)) ELSE s

RECURSIVE TrimEnd(_)
TrimEnd(s) ==
    IF s # <<>> /\ IsWhitespace(s[Len(s)])
    THEN TrimEnd(SubSeq(s, 1, Len(s) - 1))
    ELSE s

\* s.trim()
Trim(s) == TrimEnd(TrimStart(s))

\* Whether sep occurs in s at (1-based) position i.
OccursAt(s, sep, i) ==
    /\ i + Len(sep) - 1 <= Len(s)
    /\ SubSeq(s, i, i + Len(sep) - 1) = sep

\* s.indexOf(sep) + 1; 0 when sep does not occur.
IndexOf(s, sep) ==
    IF \E i \in 1..Len(s) : OccursAt(s, sep, i)
    THEN CHOOSE i \in 1..Len(s) :
            /\ OccursAt(s, sep, i)
            /\ \A j \in 1..(i - 1) : ~OccursAt(s, sep, j)
    ELSE 0

\* s.includes(sep), for a non-empty sep.
Includes(s, sep) == IndexOf(s, sep) # 0

\* s.split(sep), for a non-empty sep: cut at each occurrence, scanning left to
\* right, occurrences not overlapping.
RECURSIVE Split(_, _)
Split(s, sep) ==
    LET i == IndexOf(s, sep)
    IN  IF i = 0
        THEN <<s>>
        ELSE <<SubSeq(s, 1, i - 1)>> \o Split(SubSeq(s, i + Len(sep), Len(s)), sep)

\* s.slice(-n), for n > 0: the last n code units (all of s when n >= length).
SliceLast(s, n) ==
    IF n >= Len(s) THEN s ELSE SubSeq(s, Len(s) - n + 1, Len(s))

\* s.slice(i, i + n), for 0 <= i (0-based) and n >= 0.
SliceFrom(s, i, n) ==
    SubSeq(s, i + 1, IF i + n > Len(s) THEN Len(s) ELSE i + n)

-----------------------------------------------------------------------------
(* The chunker *)

\* DEFAULT_CHUNK_CONFIG.separators: '\n\n', '\n', '。', '. ', ' '
DefaultSeparators == << <<10, 10>>, <<10>>, <<12290>>, <<46, 32>>, <<32>> >>

\* The outcome of a call that may loop for ever: either the list it returns, or
\* the mark that it never returns.
Returns(list) == [diverges |-> FALSE, list |-> list]
NeverReturns  == [diverges |-> TRUE, list |-> <<>>]

\* KnowledgeBaseService.addOverlap
addOverlap(segments, overlapSize) ==
    IF Len(segments) <= 1 \/ overlapSize <= 0
    THEN segments
    ELSE [i \in 1..Len(segments) |->
            IF i > 1
            THEN SliceLast(segments[i - 1], overlapSize) \o segments[i]
            ELSE segments[i]]

\* The forced split of splitText: for (i = 0; i < text.length; i += max - overlap).
\* With a stride <= 0 the loop variable never reaches text.length and the loop
\* never ends.
RECURSIVE ForcedSlices(_, _, _)
ForcedSlices(text, config, i) ==
    IF i >= Len(text)
    THEN <<>>
    ELSE LET chunk == Trim(SliceFrom(text, i, config.maxChunkSize))
         IN  (IF chunk # <<>> THEN <<chunk>> ELSE <<>>)
             \o ForcedSlices(text, config, i + config.maxChunkSize - config.overlapSize)

forcedSplit(text, config) ==
    IF Len(text) > 0 /\ config.maxChunkSize - config.overlapSize <= 0
    THEN NeverReturns
    ELSE Returns(ForcedSlices(text, config, 0))

RECURSIVE splitText(_, _)
RECURSIVE SplitFrom(_, _, _)
RECURSIVE Accumulate(_, _, _, _, _, _)

\* The loop over the parts of text.split(separator): parts[j..] are still to be
\* read, current is the running buffer, result the chunks pushed so far.
Accumulate(parts, j, current, result, separator, config) ==
    IF j > Len(parts)
    THEN Returns(IF Trim(current) # <<>>
                 THEN Append(result, Trim(current))
                 ELSE result)
    ELSE LET part == parts[j]
             candidate == current \o (IF current # <<>> THEN separator ELSE <<>>) \o part
         IN  IF Len(candidate) <= config.maxChunkSize
             THEN Accumulate(parts, j + 1, candidate, result, separator, config)
             ELSE LET flushed == IF current # <<>>
                                 THEN Append(result, Trim(current))
                                 ELSE result
                  IN  IF Len(part) > config.maxChunkSize
                      THEN LET sub == splitText(part, config)
                           IN  IF sub.diverges
                               THEN NeverReturns
                               ELSE Accumulate(parts, j + 1, <<>>,
                                               flushed \o sub.list, separator, config)
                      ELSE Accumulate(parts, j + 1, part, flushed, separator, config)

\* The loop over config.separators, from the k-th on, and the forced split
\* after it.
SplitFrom(text, config, k) ==
    IF k > Len(config.separators)
    THEN forcedSplit(text, config)
    ELSE LET separator == config.separators[k]
         IN  IF Includes(text, separator)
             THEN LET acc == Accumulate(Split(text, separator), 1, <<>>, <<>>,
                                        separator, config)
                  IN  IF acc.diverges
                      THEN NeverReturns
                      ELSE IF Len(acc.list) > 0
                           THEN Returns(addOverlap(acc.list, config.overlapSize))
                           ELSE SplitFrom(text, config, k + 1)
             ELSE SplitFrom(text, config, k + 1)

\* KnowledgeBaseService.splitText
splitText(text, config) ==
    IF Len(text) <= config.maxChunkSize
    THEN Returns(IF Trim(text) # <<>> THEN <<Trim(text)>> ELSE <<>>)
    ELSE SplitFrom(text, config, 1)

\* chunkDocument with the length test made strict: a document of exactly
\* maxChunkSize characters is sent to splitText.
chunkDocumentStrict(text, config) ==
    IF Len(text) < config.maxChunkSize
    THEN Returns(<< [content |-> text, chunkIndex |-> 0] >>)
    ELSE LET textChunks == splitText(text, config)
         IN  IF textChunks.diverges
             THEN NeverReturns
             ELSE Returns([i \in 1..Len(textChunks.list) |->
                            [content |-> textChunks.list[i], chunkIndex |-> i - 1]])

\* KnowledgeBaseService.chunkDocument: the contents and chunkIndex of the
\* chunks (the other fields are copied from the document).
chunkDocument(text, config) ==
    IF Len(text) <= config.maxChunkSize
    THEN Returns(<< [content |-> text, chunkIndex |-> 0] >>)
    ELSE LET textChunks == splitText(text, config)
         IN  IF textChunks.diverges
             THEN NeverReturns
             ELSE Returns([i \in 1..Len(textChunks.list) |->
                            [content |-> textChunks.list[i], chunkIndex |-> i - 1]])

-----------------------------------------------------------------------------
(* The EmbeddingService *)

\* String.prototype.toLowerCase, one code unit at a time: 'A'..'Z' go to
\* 'a'..'z', and U+0130 (capital I with dot above) becomes the two code units
\* U+0069 U+0307; the other code units of the model's alphabets are unchanged.
LowerOf(c) ==
    IF c \in 65..90 THEN <<c + 32>>
    ELSE IF c = 304 THEN <<105, 775>>
    ELSE <<c>>

RECURSIVE toLowerCase(_)
toLowerCase(s) ==
    IF s = <<>> THEN <<>> ELSE LowerOf(Head(s)) \o toLowerCase(Tail(s))

\* Math.ceil(n / 4), n >= 0
CeilDiv4(n) == (n + 3) \div 4

RECURSIVE SumOver(_, _)
SumOver(f, S) ==
    IF S = {} THEN 0
    ELSE LET x == CHOOSE y \in S : TRUE
         IN  f[x] + SumOver(f, S \ {x})

\* The sum of the squares of the numerators of a vector.
SumSquares(nz) == SumOver([i \in DOMAIN nz |-> nz[i] * nz[i]], DOMAIN nz)

\* embedding[index] += 1
Increment(nz, index) ==
    IF index \in DOMAIN nz
    THEN [nz EXCEPT ![index] = @ + 1]
    ELSE nz @@ (index :> 1)

\* simpleEmbedding with the position left out of the index: charCode % dimensions.
RECURSIVE CountCharsNoPosition(_, _, _, _)
CountCharsNoPosition(normalized, i, dimensions, nz) ==
    IF i >= Len(normalized)
    THEN nz
    ELSE CountCharsNoPosition(normalized, i + 1, dimensions,
                              Increment(nz, normalized[i + 1] % dimensions))

\* The loop of simpleEmbedding: for (i = 0; i < normalized.length; i++)
\* embedding[(charCode + i) % dimensions] += 1.
RECURSIVE CountChars(_, _, _, _)
CountChars(normalized, i, dimensions, nz) ==
    IF i >= Len(normalized)
    THEN nz
    ELSE CountChars(normalized, i + 1, dimensions,
                    Increment(nz, (normalized[i + 1] + i) % dimensions))

\* const dimensions = 384
Dimensions == 384

\* EmbeddingService.simpleEmbedding
simpleEmbedding(text) ==
    LET normalized == toLowerCase(text)
        counts == CountChars(normalized, 0, Dimensions, <<>>)
        magnitude2 == SumSquares(counts)
    IN  [embedding  |-> [dim  |-> Dimensions,
                         nz   |-> counts,
                         den2 |-> IF magnitude2 > 0 THEN magnitude2 ELSE 1],
         model      |-> "simple-fallback",
         tokenCount |-> CeilDiv4(Len(text))]

\* this.model
RemoteModel == "text-embedding-3-small"

\* The lengths of the vectors the remote service answers with: that of
\* text-embedding-3-small.
RemoteDims == {1536}

\* The vector the remote service computes for a text, at a given length: an
\* unknown function of the text, held as a small code of each character at the
\* first indices.
RemoteVector(text, dim) ==
    [dim  |-> dim,
     nz   |-> [i \in 0..(Len(text) - 1) |-> 1 + (text[i + 1] % 7)],
     den2 |-> 1]

\* response.usage?.total_tokens as the remote service may report it (0: absent).
RemoteUsages == {0, 7}

\* The usages told apart for a caller: the knowledge base reads only the
\* embedding of an answer, never its tokenCount, so one usage stands for all.
UsagesSeenBy(c) == IF c = "direct" THEN RemoteUsages ELSE {7}

Pending == [pending |-> TRUE]
IsPending(item) == "pending" \in DOMAIN item

IdleCall == [fn |-> "none", phase |-> "idle", texts |-> <<>>, items |-> <<>>,
             batchFailed |-> FALSE]

\* The state of a call of embed({text}) after its synchronous part: with the
\* OpenAI provider it awaits embedWithOpenAI, otherwise simpleEmbedding has
\* answered.
EmbedItem(text) ==
    IF provider = "openai" THEN Pending ELSE simpleEmbedding(text)

AllSettled(items) == \A i \in 1..Len(items) : ~IsPending(items[i])

\* Promise.all(texts.map(text => this.embed({ text })))
EachEmbed(texts, batchFailed) ==
    LET items == [i \in 1..Len(texts) |-> EmbedItem(texts[i])]
    IN  [fn |-> "embedBatch",
         phase |-> IF AllSettled(items) THEN "done" ELSE "awaitAll",
         texts |-> texts, items |-> items, batchFailed |-> batchFailed]

\* A call of embed({text}), up to its first await.
EmbedCall(text) ==
    [fn |-> "embed",
     phase |-> IF provider = "openai" THEN "awaitAll" ELSE "done",
     texts |-> <<text>>, items |-> <<EmbedItem(text)>>,
     batchFailed |-> FALSE]

\* A call of embedBatch(texts), up to its first await.
EmbedBatchCall(texts) ==
    IF provider = "openai"
    THEN [fn |-> "embedBatch", phase |-> "awaitBatch",
          texts |-> texts, items |-> <<>>, batchFailed |-> FALSE]
    ELSE EachEmbed(texts, FALSE)

\* embed(request) is called by caller c.
EmbedStart(c, text) ==
    /\ call[c].phase = "idle"
    /\ call' = [call EXCEPT ![c] = EmbedCall(text)]

\* embedBatch(texts) is called by caller c.
EmbedBatchStart(c, texts) ==
    /\ call[c].phase = "idle"
    /\ call' = [call EXCEPT ![c] = EmbedBatchCall(texts)]

\* The remote batch call answers with n items, the j-th the vector of the j-th
\* input (an item beyond the inputs is the vector of the empty text).
\* response.data.map(...) reads texts[index].length: with more items than
\* texts that throws inside the try, and the catch falls to the individual
\* calls.
RemoteBatchReply(c, n, dim) ==
    /\ call[c].phase = "awaitBatch"
    /\ LET texts == call[c].texts
       IN  call' = [call EXCEPT ![c] =
                      IF n > Len(texts)
                      THEN EachEmbed(texts, TRUE)
                      ELSE [fn |-> "embedBatch", phase |-> "done", texts |-> texts,
                            items |-> [j \in 1..n |->
                                         [embedding  |-> RemoteVector(texts[j], dim),
                                          model      |-> RemoteModel,
                                          tokenCount |-> CeilDiv4(Len(texts[j]))]],
                            batchFailed |-> FALSE]]

\* RemoteBatchFail answering with an empty list instead of falling back to the
\* individual calls.
RemoteBatchFailGivesUp(c) ==
    /\ call[c].phase = "awaitBatch"
    /\ call' = [call EXCEPT ![c].phase = "done", ![c].batchFailed = TRUE]

\* The remote batch call throws (network, quota, time-out of the client).
RemoteBatchFail(c) ==
    /\ call[c].phase = "awaitBatch"
    /\ call' = [call EXCEPT ![c] = EachEmbed(call[c].texts, TRUE)]

Settle(c, i, response) ==
    LET items == [call[c].items EXCEPT ![i] = response]
    IN  call' = [call EXCEPT ![c].items = items,
                             ![c].phase = IF AllSettled(items) THEN "done" ELSE "awaitAll"]

\* embedWithOpenAI answers for the i-th text.
RemoteSingleReply(c, i, dim, usage) ==
    /\ call[c].phase = "awaitAll"
    /\ i \in 1..Len(call[c].items)
    /\ IsPending(call[c].items[i])
    /\ Settle(c, i, [embedding  |-> RemoteVector(call[c].texts[i], dim),
                     model      |-> RemoteModel,
                     tokenCount |-> usage])

\* embedWithOpenAI throws for the i-th text: embed catches and answers with
\* simpleEmbedding.
RemoteSingleFail(c, i) ==
    /\ call[c].phase = "awaitAll"
    /\ i \in 1..Len(call[c].items)
    /\ IsPending(call[c].items[i])
    /\ Settle(c, i, simpleEmbedding(call[c].texts[i]))

-----------------------------------------------------------------------------
(* Cosine similarity and scores *)

\* The outcome of a call that may throw.
Thrown(message) == [threw |-> TRUE, error |-> message]
Value(v) == [threw |-> FALSE, value |-> v]

\* A score is num / sqrt(den2), den2 > 0.
ZeroScore == [num |-> 0, den2 |-> 1]

\* The sum over the loop of cosineSimilarity of a[i] * b[i], numerators only.
DotProduct(a, b) ==
    LET common == DOMAIN a.nz \cap DOMAIN b.nz
    IN  SumOver([i \in common |-> a.nz[i] * b.nz[i]], common)

\* cosineSimilarity without the test of the lengths.
cosineSimilarityUnchecked(a, b) ==
    LET magnitudeA2 == SumSquares(a.nz)
        magnitudeB2 == SumSquares(b.nz)
    IN  IF magnitudeA2 = 0 \/ magnitudeB2 = 0
        THEN Value(ZeroScore)
        ELSE Value([num |-> DotProduct(a, b), den2 |-> magnitudeA2 * magnitudeB2])

\* EmbeddingService.cosineSimilarity: dot / (|a| |b|).  The common factors
\* 1 / sqrt(den2) of a and of b cancel.
cosineSimilarity(a, b) ==
    IF a.dim # b.dim
    THEN Thrown("Vectors must have same dimensions")
    ELSE LET magnitudeA2 == SumSquares(a.nz)
             magnitudeB2 == SumSquares(b.nz)
         IN  IF magnitudeA2 = 0 \/ magnitudeB2 = 0
             THEN Value(ZeroScore)
             ELSE Value([num |-> DotProduct(a, b), den2 |-> magnitudeA2 * magnitudeB2])

\* s > t, for scores
ScoreGreater(s, t) ==
    IF s.num >= 0 /\ t.num >= 0
    THEN s.num * s.num * t.den2 > t.num * t.num * s.den2
    ELSE IF s.num < 0 /\ t.num < 0
         THEN s.num * s.num * t.den2 < t.num * t.num * s.den2
         ELSE s.num >= 0

\* s >= p / q, for a score s and a rational threshold p / q with q > 0
ScoreAtLeast(s, m) ==
    IF m.p >= 0
    THEN s.num >= 0 /\ s.num * s.num * m.q * m.q >= m.p * m.p * s.den2
    ELSE s.num >= 0 \/ s.num * s.num * m.q * m.q <= m.p * m.p * s.den2

-----------------------------------------------------------------------------
(* The InMemoryVectorStore *)

\* uuidv4(): the n-th value handed out
Uuid(n) == "uuid-" \o ToString(n)

\* chunk.embedding is undefined
NoEmbedding == [none |-> TRUE]
HasEmbedding(chunk) == "none" \notin DOMAIN chunk.embedding

\* map.set(key, value)
MapSet(map, key, value) ==
    [k \in DOMAIN map \cup {key} |-> IF k = key THEN value ELSE map[k]]

\* map.delete(key)
MapDelete(map, key) == [k \in DOMAIN map \ {key} |-> map[k]]

\* set.add(id), for a Set held in insertion order
SetAdd(ids, id) ==
    IF \E i \in 1..Len(ids) : ids[i] = id THEN ids ELSE Append(ids, id)

\* set.delete(id)
SetDelete(ids, id) == SelectSeq(ids, LAMBDA x : x # id)

\* The loop of InMemoryVectorStore.upsert from the i-th chunk on; store is
\* [chunks, tenantIndex, uuids].
RECURSIVE UpsertLoop(_, _, _)
UpsertLoop(batch, i, store) ==
    IF i > Len(batch)
    THEN store
    ELSE LET fresh == batch[i].id = ""
             chunk == IF fresh
                      THEN [batch[i] EXCEPT !.id = Uuid(store.uuids + 1)]
                      ELSE batch[i]
             index == IF chunk.tenantId \in DOMAIN store.tenantIndex
                      THEN store.tenantIndex
                      ELSE MapSet(store.tenantIndex, chunk.tenantId, <<>>)
         IN  UpsertLoop(batch, i + 1,
                [chunks      |-> MapSet(store.chunks, chunk.id, chunk),
                 tenantIndex |-> [index EXCEPT ![chunk.tenantId] = SetAdd(@, chunk.id)],
                 uuids       |-> IF fresh THEN store.uuids + 1 ELSE store.uuids])

\* An upsert that stops after the first chunk of the batch.
upsertFirstOnly(batch, store) == UpsertLoop(SubSeq(batch, 1, 1), 1, store)

\* InMemoryVectorStore.upsert: the loop has no await, it runs to its end
\* before any other operation of the store can start.
upsert(batch, store) == UpsertLoop(batch, 1, store)

\* The loop of InMemoryVectorStore.search over the tenant's ids from the i-th
\* on: the results pushed, or the error cosineSimilarity throws.
RECURSIVE Scored(_, _, _, _)
Scored(embedding, ids, i, store) ==
    IF i > Len(ids)
    THEN Value(<<>>)
    ELSE IF ids[i] \notin DOMAIN store.chunks \/ ~HasEmbedding(store.chunks[ids[i]])
         THEN Scored(embedding, ids, i + 1, store)
         ELSE LET chunk == store.chunks[ids[i]]
                  score == cosineSimilarity(embedding, chunk.embedding)
              IN  IF score.threw
                  THEN score
                  ELSE LET rest == Scored(embedding, ids, i + 1, store)
                       IN  IF rest.threw
                           THEN rest
                           ELSE Value(<<[chunk |-> chunk, score |-> score.value]>>
                                      \o rest.value)

\* The results left in the order of the loop: no sort.
InsertionOrder(results) == results

\* results.sort((a, b) => b.score - a.score): stable, by score descending.
RECURSIVE SortByScore(_)
SortByScore(results) ==
    IF results = <<>>
    THEN <<>>
    ELSE LET sorted == SortByScore(SubSeq(results, 1, Len(results) - 1))
             last == results[Len(results)]
             \* last goes behind every result whose score is not smaller
             place == IF \E k \in 1..Len(sorted) : ScoreGreater(last.score, sorted[k].score)
                      THEN (CHOOSE k \in 1..Len(sorted) :
                                /\ ScoreGreater(last.score, sorted[k].score)
                                /\ \A l \in 1..(k - 1) :
                                     ~ScoreGreater(last.score, sorted[l].score)) - 1
                      ELSE Len(sorted)
         IN  SubSeq(sorted, 1, place) \o <<last>> \o SubSeq(sorted, place + 1, Len(sorted))

\* array.slice(0, end)
SliceTo(array, end) ==
    LET stop == IF end < 0
                THEN (IF Len(array) + end < 0 THEN 0 ELSE Len(array) + end)
                ELSE (IF end > Len(array) THEN Len(array) ELSE end)
    IN  SubSeq(array, 1, stop)

\* InMemoryVectorStore.search
vectorSearch(embedding, tenantId, topK, store) ==
    IF tenantId \notin DOMAIN store.tenantIndex \/ Len(store.tenantIndex[tenantId]) = 0
    THEN Value(<<>>)
    ELSE LET results == Scored(embedding, store.tenantIndex[tenantId], 1, store)
         IN  IF results.threw
             THEN results
             ELSE Value(SliceTo(SortByScore(results.value), topK))

\* The loop of InMemoryVectorStore.delete from the i-th id on.
RECURSIVE DeleteLoop(_, _, _)
DeleteLoop(ids, i, store) ==
    IF i > Len(ids)
    THEN store
    ELSE IF ids[i] \in DOMAIN store.chunks
         THEN LET tenant == store.chunks[ids[i]].tenantId
              IN  DeleteLoop(ids, i + 1,
                    [store EXCEPT
                        !.tenantIndex = IF tenant \in DOMAIN @
                                        THEN [@ EXCEPT ![tenant] = SetDelete(@, ids[i])]
                                        ELSE @,
                        !.chunks = MapDelete(@, ids[i])])
         ELSE DeleteLoop(ids, i + 1, store)

\* A delete that forgets the membership sets.
deleteChunksOnly(ids, store) ==
    [store EXCEPT !.chunks = [k \in DOMAIN @ \ {ids[i] : i \in 1..Len(ids)} |-> @[k]]]

\* InMemoryVectorStore.delete
delete(ids, store) == DeleteLoop(ids, 1, store)

\* A deleteByTenant that does nothing.
deleteByTenantSkipped(tenantId, store) == store

\* InMemoryVectorStore.deleteByTenant
deleteByTenant(tenantId, store) ==
    IF tenantId \notin DOMAIN store.tenantIndex
    THEN store
    ELSE LET ids == {store.tenantIndex[tenantId][i] :
                        i \in 1..Len(store.tenantIndex[tenantId])}
         IN  [store EXCEPT
                !.chunks = [k \in DOMAIN @ \ ids |-> @[k]],
                !.tenantIndex = MapDelete(@, tenantId)]

\* InMemoryVectorStore.getStats
getStats(store) ==
    [totalChunks |-> Cardinality(DOMAIN store.chunks),
     tenantCount |-> Cardinality(DOMAIN store.tenantIndex),
     chunksByTenant |-> [t \in DOMAIN store.tenantIndex |->
                            Len(store.tenantIndex[t])]]

\* The store as the operations above take it.
Store == [chunks |-> chunks, tenantIndex |-> tenantIndex, uuids |-> nextUuid]

-----------------------------------------------------------------------------
(* The frames of the KnowledgeBaseService's calls at rest *)

\* The chunk configuration of the service: DEFAULT_CHUNK_CONFIG with the sizes
\* scaled down to the documents of the model.
KbConfig == [maxChunkSize |-> 2, overlapSize |-> 1, separators |-> DefaultSeparators]

\* No ingest is running.  purged tells whether deleteAllForTenant ran for the
\* call's tenant while the call awaited embedBatch; it is not part of the
\* program's state.
IdleIngest == [pc |-> "idle", tenantId |-> "", docs |-> <<>>, k |-> 0,
               document |-> [id |-> "", tenantId |-> "", content |-> <<>>, source |-> ""],
               chunks |-> <<>>, results |-> <<>>, purged |-> FALSE]

\* No search is running.
IdleSearch == [pc |-> "idle", query |-> <<>>, tenantId |-> "", topK |-> 0,
               minScore |-> [p |-> 0, q |-> 1],
               options |-> [hasTopK |-> FALSE, topK |-> 0, hasMinScore |-> FALSE,
                            minScore |-> [p |-> 0, q |-> 1]]]

\* No operation has answered yet.
NoOutput == [op |-> "none"]

\* No chat request is being handled.
IdleChat == [pc |-> "idle"]

-----------------------------------------------------------------------------
(* The EmbeddingService on its own, called directly *)

Callers == {"direct", "ingest", "search"}

\* 'A', 'b', U+0130: "bA" lower-cased is "ba", whose two characters hit one
\* index (98 + 0 = 97 + 1).
EmbedAlphabet == {65, 98, 304}

EmbedTexts == UNION {[1..n -> EmbedAlphabet] : n \in 0..MaxEmbedTextLen}

\* The texts of a batch: '', 'A', 'bA'
BatchTexts == {<<>>, <<65>>, <<98, 65>>}

Batches == UNION {[1..n -> BatchTexts] : n \in 0..MaxBatchSize}

Providers == {"openai", "anthropic", "none"}

DirectEmbed ==
    /\ \E text \in EmbedTexts : EmbedStart("direct", text)
    /\ UNCHANGED <<provider, besidesEmbedding>>

DirectEmbedBatch ==
    /\ \E texts \in Batches : EmbedBatchStart("direct", texts)
    /\ UNCHANGED <<provider, besidesEmbedding>>

BatchReply ==
    /\ \E c \in Callers :
         \E n \in 0..(Len(call[c].texts) + 1), dim \in RemoteDims :
            RemoteBatchReply(c, n, dim)
    /\ UNCHANGED <<provider, besidesEmbedding>>

BatchFail ==
    /\ \E c \in Callers : RemoteBatchFail(c)
    /\ UNCHANGED <<provider, besidesEmbedding>>

SingleReply ==
    /\ \E c \in Callers :
         \E i \in 1..Len(call[c].items), dim \in RemoteDims, usage \in UsagesSeenBy(c) :
            RemoteSingleReply(c, i, dim, usage)
    /\ UNCHANGED <<provider, besidesEmbedding>>

SingleFail ==
    /\ \E c \in Callers :
         \E i \in 1..Len(call[c].items) : RemoteSingleFail(c, i)
    /\ UNCHANGED <<provider, besidesEmbedding>>

\* The caller takes the result.
DirectReturn ==
    /\ call["direct"].phase = "done"
    /\ call' = [call EXCEPT !["direct"] = IdleCall]
    /\ UNCHANGED <<provider, besidesEmbedding>>

EmbedNext ==
    \/ DirectEmbed
    \/ DirectEmbedBatch
    \/ BatchReply
    \/ BatchFail
    \/ SingleReply
    \/ SingleFail
    \/ DirectReturn

-----------------------------------------------------------------------------
(* The chunker on its own: every text and configuration within the bounds *)

\* 'a', ' ', '\n', '.', '。'
ChunkAlphabet == {97, 32, 10, 46, 12290}

Texts == UNION {[1..n -> ChunkAlphabet] : n \in 0..MaxTextLen}

ChunkConfigs ==
    [maxChunkSize : 2..MaxChunkSizeBound,
     overlapSize  : 0..MaxOverlapBound,
     separators   : {DefaultSeparators}]

NotChunked == [diverges |-> FALSE, list |-> <<>>]

ChunkInit ==
    /\ content \in Texts
    /\ chunkConfig \in ChunkConfigs
    /\ chunkPc = "ready"
    /\ chunked = NotChunked
    /\ provider = "none"
    /\ call = [c \in Callers |-> IdleCall]
    /\ chunks = <<>>
    /\ tenantIndex = <<>>
    /\ documents = <<>>
    /\ nextUuid = 0
    /\ ingest = IdleIngest
    /\ search = IdleSearch
    /\ out = NoOutput
    /\ sessions = <<>>
    /\ now = 0
    /\ preferredProvider = "none"
    /\ chat = IdleChat

ChunkDocument ==
    /\ chunkPc = "ready"
    /\ chunked' = chunkDocument(content, chunkConfig)
    /\ chunkPc' = "done"
    /\ UNCHANGED <<content, chunkConfig, besidesChunker>>

ChunkNext == ChunkDocument

SpecChunk == ChunkInit /\ [][ChunkNext]_vars


EmbedInit ==
    /\ content = <<>>
    /\ chunkConfig = KbConfig
    /\ chunkPc = "ready"
    /\ chunked = NotChunked
    /\ provider \in {"openai", "none"}
    /\ call = [c \in Callers |-> IdleCall]
    /\ chunks = <<>>
    /\ tenantIndex = <<>>
    /\ documents = <<>>
    /\ nextUuid = 0
    /\ ingest = IdleIngest
    /\ search = IdleSearch
    /\ out = NoOutput
    /\ sessions = <<>>
    /\ now = 0
    /\ preferredProvider = "none"
    /\ chat = IdleChat

SpecEmbed == EmbedInit /\ [][EmbedNext]_vars

-----------------------------------------------------------------------------
(* The KnowledgeBaseService and the operations of the store it shares *)

Tenants == {"t1", "t2"}

\* Ids a caller of the store chooses itself.
ExplicitIds == {"c1"}

\* The contents of the documents ingested: 'a' (one chunk) and 'a b c' (three
\* chunks under KbConfig, more than the 2 * topK candidates of a search with
\* topK 1).
DocContents == {<<97>>, <<97, 32, 98, 32, 99>>}

\* The documents ingested: one with an empty source, one with a source.
DocSpecs == {[content |-> <<97>>, source |-> ""],
             [content |-> <<97, 32, 98, 32, 99>>, source |-> "faq.md"]}

IngestRequests == UNION {[1..n -> DocSpecs] : n \in 1..MaxDocs}

\* The vectors a caller of the store hands in: one of the fallback's, and one
\* of the length the remote service answers with.
DirectFallbackVector == simpleEmbedding(<<98>>).embedding
DirectRemoteVector == RemoteVector(<<98>>, 1536)

\* The chunks a caller of the store upserts: with an id of the caller's, with
\* or without an embedding, or with '' as id (upsert assigns one) and an
\* embedding.
DirectChunks ==
    [id : ExplicitIds, documentId : {""}, tenantId : Tenants,
     content : {<<98>>}, chunkIndex : {0},
     embedding : {NoEmbedding, DirectFallbackVector}, source : {""}]
    \cup
    [id : {""}, documentId : {""}, tenantId : Tenants,
     content : {<<98>>}, chunkIndex : {0},
     embedding : {DirectFallbackVector}, source : {""}]

UpsertBatches == UNION {[1..n -> DirectChunks] : n \in 1..MaxUpsertBatch}

DirectQueries == {DirectFallbackVector, DirectRemoteVector}

TopKs == {-1, 0, 1, 2}

\* minScore as a rational p / q: 0.75, between the scores the query gets
\* against the chunks of the model under the fallback embedding.
MinScores == {[p |-> 3, q |-> 4]}

\* The query 'ab': under the fallback embedding it scores 1 against the chunk
\* 'ab' and 1 / sqrt(2) against the chunk 'a'.
Queries == {<<97, 98>>}

\* const { ..., topK = 3, minScore = 0.5 } = query
DefaultTopK == 3
DefaultMinScore == [p |-> 1, q |-> 2]

\* The topK and minScore of a SearchQuery: both given, or both left out
\* (hasTopK, hasMinScore false: the property is undefined).
SearchOptions ==
    {[hasTopK |-> TRUE, topK |-> 1, hasMinScore |-> TRUE, minScore |-> m] :
        m \in MinScores}
    \cup {[hasTopK |-> FALSE, topK |-> 0, hasMinScore |-> FALSE,
           minScore |-> [p |-> 0, q |-> 1]]}

\* The tenant searched through the knowledge base.  The code treats all
\* tenants alike and ingests and deletions range over both, so the searches
\* for one of them meet its own data and the other tenant's.
SearchedTenants == {"t1"}

\* The number of uuidv4() calls that ingesting docs makes: one per document
\* and one per chunk.
UuidsNeeded(docs) ==
    SumOver([k \in 1..Len(docs) |->
                1 + Len(chunkDocument(docs[k].content, chunkConfig).list)],
            1..Len(docs))

\* chunkDocument with the tenantId of the chunks left empty.
MakeChunksNoTenant(document, pieces, uu) ==
    [i \in 1..Len(pieces) |->
        [id |-> Uuid(uu + i), documentId |-> document.id,
         tenantId |-> "",
         content |-> pieces[i].content,
         chunkIndex |-> pieces[i].chunkIndex,
         embedding |-> NoEmbedding, source |-> document.source]]

\* The chunks chunkDocument makes of a document: the pieces of its content,
\* each with a fresh id (after the uu handed out so far) and the document's
\* id, tenantId and source.
MakeChunks(document, pieces, uu) ==
    [i \in 1..Len(pieces) |->
        [id |-> Uuid(uu + i), documentId |-> document.id,
         tenantId |-> document.tenantId,
         content |-> pieces[i].content,
         chunkIndex |-> pieces[i].chunkIndex,
         embedding |-> NoEmbedding, source |-> document.source]]

\* ingest's for loop, entered for the k-th document with the results so far
\* and uu uuids handed out: up to the await of embedBatch, or to the return
\* after the last document.
IngestLoop(tenantId, docs, k, results, uu) ==
    IF k > Len(docs)
    THEN /\ ingest' = IdleIngest
         /\ call' = [call EXCEPT !["ingest"] = IdleCall]
         /\ nextUuid' = uu
         /\ out' = [op |-> "ingest", tenantId |-> tenantId, results |-> results]
    ELSE LET doc == docs[k]
             document == [id |-> Uuid(uu + 1), tenantId |-> tenantId,
                          content |-> doc.content, source |-> doc.source]
             pieces == chunkDocument(doc.content, chunkConfig)
             made == MakeChunks(document, pieces.list, uu + 1)
         IN  /\ ingest' = [pc |-> IF pieces.diverges THEN "hung" ELSE "awaitEmbed",
                           tenantId |-> tenantId, docs |-> docs, k |-> k,
                           document |-> document, chunks |-> made,
                           results |-> results, purged |-> ingest.purged]
             /\ call' = [call EXCEPT !["ingest"] =
                            IF pieces.diverges
                            THEN IdleCall
                            ELSE EmbedBatchCall([i \in 1..Len(made) |-> made[i].content])]
             /\ nextUuid' = uu + 1 + Len(made)
             /\ out' = out

\* KnowledgeBaseService.ingest is called.
IngestCall ==
    /\ ingest.pc = "idle"
    /\ \E tenantId \in Tenants, docs \in IngestRequests :
        /\ nextUuid + UuidsNeeded(docs) <= MaxUuid
        /\ IngestLoop(tenantId, docs, 1, <<>>, nextUuid)
    /\ UNCHANGED <<provider, chatVars, chunkVars, storeVars, documents, search>>

\* A failed result that counts a chunk.
FailedResultCountingChunks(message, remoteFailed) ==
    [documentId |-> "", chunksCreated |-> 1, status |-> "failed", error |-> message,
     remoteFailed |-> remoteFailed]

\* The result pushed by the catch of ingest.  remoteFailed tells whether the
\* remote call of the document's embedBatch failed; it is not part of the result.
FailedResult(message, remoteFailed) ==
    [documentId |-> "", chunksCreated |-> 0, status |-> "failed", error |-> message,
     remoteFailed |-> remoteFailed]

\* ingest resumes after embedBatch: it attaches the embeddings and upserts the
\* chunks, up to the await of upsert.  embeddings[i] is undefined when fewer
\* embeddings than chunks came back: reading its .embedding throws, the catch
\* reports the document failed and the loop goes on.
IngestAttach ==
    /\ ingest.pc = "awaitEmbed"
    /\ call["ingest"].phase = "done"
    /\ LET embeddings == call["ingest"].items
       IN  IF Len(embeddings) < Len(ingest.chunks)
           THEN /\ IngestLoop(ingest.tenantId, ingest.docs, ingest.k + 1,
                              Append(ingest.results,
                                     FailedResult("Cannot read properties of undefined",
                                                  call["ingest"].batchFailed)),
                              nextUuid)
                /\ UNCHANGED storeVars
           ELSE LET attached == [i \in 1..Len(ingest.chunks) |->
                                    [ingest.chunks[i] EXCEPT
                                        !.embedding = embeddings[i].embedding]]
                    after == upsert(attached, Store)
                IN  /\ chunks' = after.chunks
                    /\ tenantIndex' = after.tenantIndex
                    /\ ingest' = [ingest EXCEPT !.pc = "awaitUpsert", !.chunks = attached]
                    /\ UNCHANGED <<call, nextUuid, out>>
    /\ UNCHANGED <<provider, chatVars, chunkVars, documents, search>>

\* ingest resumes after upsert: it stores the document, reports it and goes on
\* with the next one.
IngestStore ==
    /\ ingest.pc = "awaitUpsert"
    /\ documents' = Append(documents, ingest.document)
    /\ IngestLoop(ingest.tenantId, ingest.docs, ingest.k + 1,
                  Append(ingest.results,
                         [documentId |-> ingest.document.id,
                          chunksCreated |-> Len(ingest.chunks),
                          status |-> "success",
                          remoteFailed |-> call["ingest"].batchFailed]),
                  nextUuid)
    /\ UNCHANGED <<provider, chatVars, chunkVars, storeVars, search>>

\* KnowledgeBaseService.search is called: up to the await of embed.
SearchCall ==
    /\ search.pc = "idle"
    /\ \E query \in Queries, tenantId \in SearchedTenants, options \in SearchOptions :
        /\ search' = [pc |-> "awaitEmbed", query |-> query, tenantId |-> tenantId,
                      topK |-> IF options.hasTopK THEN options.topK ELSE DefaultTopK,
                      minScore |-> IF options.hasMinScore THEN options.minScore
                                   ELSE DefaultMinScore,
                      options |-> options]
        /\ call' = [call EXCEPT !["search"] = EmbedCall(query)]
    /\ UNCHANGED <<provider, chatVars, chunkVars, storeVars, documents, nextUuid, ingest, out>>

\* chunk.metadata?.source as string || 'Unknown'
SourceOf(chunk) == IF chunk.source = "" THEN "Unknown" ELSE chunk.source

\* The slice and map of KnowledgeBaseService.search without its filter.
FilterResultsNoThreshold(results, topK, minScore) ==
    LET kept == SliceTo(results, topK)
    IN  [i \in 1..Len(kept) |->
            [content |-> kept[i].chunk.content,
             source |-> SourceOf(kept[i].chunk),
             relevanceScore |-> kept[i].score,
             of |-> kept[i].chunk]]

\* The filter, slice and map of KnowledgeBaseService.search; `of` is the chunk
\* a result was made from.
FilterResults(results, topK, minScore) ==
    LET kept == SliceTo(SelectSeq(results, LAMBDA r : ScoreAtLeast(r.score, minScore)),
                        topK)
    IN  [i \in 1..Len(kept) |->
            [content |-> kept[i].chunk.content,
             source |-> SourceOf(kept[i].chunk),
             relevanceScore |-> kept[i].score,
             of |-> kept[i].chunk]]

\* search resumes after embed: it searches the store, filters and returns, or
\* throws what the store's search throws.
SearchResume ==
    /\ search.pc = "awaitEmbed"
    /\ call["search"].phase = "done"
    /\ LET queryEmbedding == call["search"].items[1]
           results == vectorSearch(queryEmbedding.embedding, search.tenantId,
                                   search.topK * 2, Store)
       IN  out' = IF results.threw
                  THEN [op |-> "search", tenantId |-> search.tenantId,
                        topK |-> search.topK, minScore |-> search.minScore,
                        options |-> search.options,
                        queryModel |-> queryEmbedding.model,
                        threw |-> TRUE, error |-> results.error]
                  ELSE [op |-> "search", tenantId |-> search.tenantId,
                        topK |-> search.topK, minScore |-> search.minScore,
                        options |-> search.options,
                        queryModel |-> queryEmbedding.model,
                        queryEmbedding |-> queryEmbedding.embedding,
                        threw |-> FALSE,
                        value |-> FilterResults(results.value, search.topK,
                                                search.minScore)]
    /\ search' = IdleSearch
    /\ call' = [call EXCEPT !["search"] = IdleCall]
    /\ UNCHANGED <<provider, chatVars, chunkVars, storeVars, documents, nextUuid, ingest>>

\* A deleteDocument that reports a deletion and keeps the document.
deleteDocumentKeepingIt(documentId, tenantId, stored) ==
    [documents |-> stored,
     deleted |-> \E i \in 1..Len(stored) :
                    stored[i].id = documentId /\ stored[i].tenantId = tenantId]

\* A deleteDocument that does not look at the tenant.
deleteDocumentOfAnyTenant(documentId, tenantId, stored) ==
    LET found == \E i \in 1..Len(stored) : stored[i].id = documentId
    IN  [documents |-> IF found
                       THEN SelectSeq(stored, LAMBDA d : d.id # documentId)
                       ELSE stored,
         deleted |-> found]

\* The body of KnowledgeBaseService.deleteDocument on the stored documents:
\* the documents it leaves and the value it returns.
deleteDocument(documentId, tenantId, stored) ==
    LET owned == \E i \in 1..Len(stored) :
                    stored[i].id = documentId /\ stored[i].tenantId = tenantId
    IN  [documents |-> IF owned
                       THEN SelectSeq(stored, LAMBDA d : d.id # documentId)
                       ELSE stored,
         deleted |-> owned]

\* KnowledgeBaseService.deleteDocument
DeleteDocument ==
    /\ \E documentId \in {documents[i].id : i \in 1..Len(documents)} \cup {Uuid(0)},
          tenantId \in Tenants :
        LET after == deleteDocument(documentId, tenantId, documents)
        IN  /\ documents' = after.documents
            /\ out' = [op |-> "deleteDocument", documentId |-> documentId,
                       tenantId |-> tenantId, deleted |-> after.deleted]
    /\ UNCHANGED <<provider, chatVars, call, chunkVars, storeVars, nextUuid, ingest, search>>

\* KnowledgeBaseService.getDocuments
getDocuments(tenantId, stored) == SelectSeq(stored, LAMBDA d : d.tenantId = tenantId)

\* The loop of deleteAllForTenant with a count of all the documents stored.
deleteAllCountingEveryTenant(tenantId, stored) ==
    [documents |-> SelectSeq(stored, LAMBDA d : d.tenantId # tenantId),
     deletedCount |-> Len(stored)]

\* The loop of KnowledgeBaseService.deleteAllForTenant over the stored
\* documents: the documents it leaves and its deletedCount.
deleteAllDocuments(tenantId, stored) ==
    [documents |-> SelectSeq(stored, LAMBDA d : d.tenantId # tenantId),
     deletedCount |-> Len(SelectSeq(stored, LAMBDA d : d.tenantId = tenantId))]

\* KnowledgeBaseService.deleteAllForTenant
DeleteAllForTenant ==
    /\ \E tenantId \in Tenants :
        LET after == deleteByTenant(tenantId, Store)
            left == deleteAllDocuments(tenantId, documents)
        IN  /\ documents' = left.documents
            /\ chunks' = after.chunks
            /\ tenantIndex' = after.tenantIndex
            /\ out' = [op |-> "deleteAllForTenant", tenantId |-> tenantId,
                       deletedCount |-> left.deletedCount]
            /\ ingest' = IF ingest.pc = "awaitEmbed" /\ ingest.tenantId = tenantId
                          THEN [ingest EXCEPT !.purged = TRUE]
                          ELSE ingest
    /\ UNCHANGED <<provider, chatVars, call, chunkVars, nextUuid, search>>

\* InMemoryVectorStore.upsert, called with chunks of the caller's own
Upsert ==
    /\ \E batch \in UpsertBatches :
        /\ nextUuid + Cardinality({i \in 1..Len(batch) : batch[i].id = ""}) <= MaxDirectUuid
        /\ LET after == upsert(batch, Store)
           IN  /\ chunks' = after.chunks
               /\ tenantIndex' = after.tenantIndex
               /\ nextUuid' = after.uuids
        /\ out' = [op |-> "upsert", batch |-> batch]
    /\ UNCHANGED <<provider, chatVars, call, chunkVars, documents, ingest, search>>

\* InMemoryVectorStore.delete
Delete ==
    /\ \E ids \in UNION {[1..n -> DOMAIN chunks \cup ExplicitIds] : n \in 1..MaxDeleteIds} :
        LET after == delete(ids, Store)
        IN  /\ chunks' = after.chunks
            /\ tenantIndex' = after.tenantIndex
            /\ out' = [op |-> "delete", ids |-> ids,
                       present |-> {ids[i] : i \in 1..Len(ids)} \cap DOMAIN chunks]
    /\ UNCHANGED <<provider, chatVars, call, chunkVars, documents, nextUuid, ingest, search>>

\* InMemoryVectorStore.deleteByTenant
DeleteByTenant ==
    /\ \E tenantId \in Tenants :
        LET after == deleteByTenant(tenantId, Store)
        IN  /\ chunks' = after.chunks
            /\ tenantIndex' = after.tenantIndex
            /\ out' = [op |-> "deleteByTenant", tenantId |-> tenantId]
    /\ UNCHANGED <<provider, chatVars, call, chunkVars, documents, nextUuid, ingest, search>>

\* InMemoryVectorStore.search
VectorSearch ==
    /\ \E embedding \in DirectQueries, tenantId \in Tenants, topK \in TopKs :
        LET results == vectorSearch(embedding, tenantId, topK, Store)
        IN  out' = IF results.threw
                   THEN [op |-> "vectorSearch", embedding |-> embedding,
                         tenantId |-> tenantId, topK |-> topK,
                         threw |-> TRUE, error |-> results.error]
                   ELSE [op |-> "vectorSearch", embedding |-> embedding,
                         tenantId |-> tenantId, topK |-> topK,
                         threw |-> FALSE, value |-> results.value]
    /\ UNCHANGED <<provider, chatVars, call, chunkVars, storeVars, documents, nextUuid,
                   ingest, search>>

Init ==
    /\ content = <<>>
    /\ chunkConfig = KbConfig
    /\ chunkPc = "ready"
    /\ chunked = NotChunked
    /\ provider \in {"openai", "none"}
    /\ call = [c \in Callers |-> IdleCall]
    /\ chunks = <<>>
    /\ tenantIndex = <<>>
    /\ documents = <<>>
    /\ nextUuid = 0
    /\ ingest = IdleIngest
    /\ search = IdleSearch
    /\ out = NoOutput
    /\ sessions = <<>>
    /\ now = 0
    /\ preferredProvider = "none"
    /\ chat = IdleChat

Next ==
    \/ IngestCall
    \/ IngestAttach
    \/ IngestStore
    \/ SearchCall
    \/ SearchResume
    \/ DeleteDocument
    \/ DeleteAllForTenant
    \/ BatchReply
    \/ BatchFail
    \/ SingleReply
    \/ SingleFail

Spec == Init /\ [][Next]_vars

\* The state in which search's continuation can run: the embedding it awaits
\* has settled.  The continuation takes search back to idle.
SearchResumeReady == search.pc = "awaitEmbed" /\ call["search"].phase = "done"

\* The service's own continuations run once what they await has settled; the
\* remote service owes no answer.  Weak fairness of the three continuations;
\* that of SearchResume is WF_vars(SearchResume) written out as "infinitely
\* often not ready, or infinitely often taken", SearchResumeReady being the
\* states in which SearchResume is enabled.
LiveSpec ==
    /\ Init
    /\ [][Next]_vars
    /\ WF_vars(IngestAttach)
    /\ WF_vars(IngestStore)
    /\ ([]<>~SearchResumeReady \/ []<><<SearchResume>>_vars)

-----------------------------------------------------------------------------
(* The InMemoryVectorStore on its own, called with chunks of the caller's *)

IndexInit ==
    /\ content = <<>>
    /\ chunkConfig = KbConfig
    /\ chunkPc = "ready"
    /\ chunked = NotChunked
    /\ provider = "none"
    /\ call = [c \in Callers |-> IdleCall]
    /\ chunks = <<>>
    /\ tenantIndex = <<>>
    /\ documents = <<>>
    /\ nextUuid = 0
    /\ ingest = IdleIngest
    /\ search = IdleSearch
    /\ out = NoOutput
    /\ sessions = <<>>
    /\ now = 0
    /\ preferredProvider = "none"
    /\ chat = IdleChat

IndexNext ==
    \/ Upsert
    \/ Delete
    \/ DeleteByTenant
    \/ VectorSearch

SpecIndex == IndexInit /\ [][IndexNext]_vars

-----------------------------------------------------------------------------
(* The ingest route of the knowledge router: POST /api/knowledge/ingest *)

\* A document of a request body.  A field that is '' (or <<>> for the content)
\* stands for every value the route's !doc.field takes for false: the property
\* left out, undefined, null or the empty string.
RouteDocValid == [title |-> "T", content |-> <<97>>, source |-> "faq.md", type |-> "faq"]

RouteDocs ==
    {RouteDocValid,
     [RouteDocValid EXCEPT !.title = ""],
     [RouteDocValid EXCEPT !.content = <<>>],
     [RouteDocValid EXCEPT !.source = ""],
     [RouteDocValid EXCEPT !.type = ""]}

\* req.body.documents: an array of documents, or a value that is not one
\* (isArray false: left out, or not an array).
RouteDocuments ==
    {[isArray |-> FALSE, items |-> <<>>]}
    \cup {[isArray |-> TRUE, items |-> d] :
            d \in UNION {[1..n -> RouteDocs] : n \in 0..MaxDocs}}

\* req.body of an ingest request; tenantId '' stands for a tenantId left out.
IngestBodies == [tenantId : {"", "t1"}, documents : RouteDocuments]

\* !doc.title || !doc.content || !doc.source || !doc.type
DocLacksField(doc) ==
    doc.title = "" \/ doc.content = <<>> \/ doc.source = "" \/ doc.type = ""

\* A validation that looks at the first document only.
validateIngestFirstOnly(body) ==
    IF body.tenantId = ""
    THEN [status |-> 400, error |-> "tenantId is required"]
    ELSE IF ~body.documents.isArray \/ Len(body.documents.items) = 0
    THEN [status |-> 400, error |-> "documents array is required and must not be empty"]
    ELSE IF DocLacksField(body.documents.items[1])
    THEN [status |-> 400,
          error |-> "Each document must have title, content, source, and type"]
    ELSE [status |-> 200, error |-> ""]

\* The validation of the ingest route: the response it returns before the
\* service is called, or status 200 when the request goes on to the service.
validateIngest(body) ==
    IF body.tenantId = ""
    THEN [status |-> 400, error |-> "tenantId is required"]
    ELSE IF ~body.documents.isArray \/ Len(body.documents.items) = 0
    THEN [status |-> 400, error |-> "documents array is required and must not be empty"]
    ELSE IF \E i \in 1..Len(body.documents.items) : DocLacksField(body.documents.items[i])
    THEN [status |-> 400,
          error |-> "Each document must have title, content, source, and type"]
    ELSE [status |-> 200, error |-> ""]

\* The ingest route handles a request: it answers 400, or calls
\* knowledgeBaseService.ingest, which runs up to its first await.
IngestRoute ==
    /\ \E body \in IngestBodies :
        LET checked == validateIngest(body)
        IN  IF checked.status = 400
            THEN /\ out' = [op |-> "ingestRoute", status |-> 400,
                            error |-> checked.error, body |-> body]
                 /\ UNCHANGED <<call, nextUuid, ingest>>
            ELSE /\ ingest.pc = "idle"
                 /\ nextUuid + UuidsNeeded(body.documents.items) <= MaxUuid
                 /\ IngestLoop(body.tenantId, body.documents.items, 1, <<>>, nextUuid)
    /\ UNCHANGED <<provider, chatVars, chunkVars, storeVars, documents, search>>

RouteNext ==
    \/ IngestRoute
    \/ IngestAttach
    \/ IngestStore
    \/ BatchReply
    \/ BatchFail
    \/ SingleReply
    \/ SingleFail

SpecRoute == Init /\ [][RouteNext]_vars

-----------------------------------------------------------------------------
(* The SessionService *)

\* A timestamp is the number of milliseconds new Date().toISOString() prints
\* and new Date(string).getTime() reads back: the string keeps every
\* millisecond.  A Message is held without its timestamp, which nothing reads.
SESSION_TTL_MS == 30 * 60 * 1000

MAX_HISTORY_LENGTH == 20

\* SessionService.isSessionValid at time t
isSessionValid(session, t) ==
    t - session.updatedAt < SESSION_TTL_MS /\ session.status = "active"

\* The session getOrCreateSession creates.  added lists the ids of all the
\* messages pushed to the session since; it is not part of the session.
\* createdAt, written here and read only for the duration the escalate route
\* reports, is left out.
NewSession(id, tenantId, t) ==
    [id |-> id, tenantId |-> tenantId, messages |-> <<>>,
     updatedAt |-> t, status |-> "active", added |-> <<>>]

\* A getOrCreateSession that gives every session it creates a new uuid.
getOrCreateSessionNewId(sessionId, tenantId, all, t, uu) ==
    IF sessionId # "" /\ sessionId \in DOMAIN all /\ isSessionValid(all[sessionId], t)
    THEN [sessions |-> [all EXCEPT ![sessionId].updatedAt = t],
          id |-> sessionId, created |-> FALSE, uuids |-> uu]
    ELSE LET kept == IF sessionId # "" /\ sessionId \in DOMAIN all
                     THEN MapDelete(all, sessionId)
                     ELSE all
         IN  [sessions |-> MapSet(kept, Uuid(uu + 1), NewSession(Uuid(uu + 1), tenantId, t)),
              id |-> Uuid(uu + 1), created |-> TRUE, uuids |-> uu + 1]

\* SessionService.getOrCreateSession at time t, uu uuids handed out so far.
\* sessionId '' stands for a sessionId that is undefined or empty: the code
\* tests it with && and ||.  The result: the sessions map, the id of the
\* session returned, whether it was created, the uuids handed out.
getOrCreateSession(sessionId, tenantId, all, t, uu) ==
    IF sessionId # "" /\ sessionId \in DOMAIN all /\ isSessionValid(all[sessionId], t)
    THEN [sessions |-> [all EXCEPT ![sessionId].updatedAt = t],
          id |-> sessionId, created |-> FALSE, uuids |-> uu]
    ELSE LET kept == IF sessionId # "" /\ sessionId \in DOMAIN all
                     THEN MapDelete(all, sessionId)
                     ELSE all
             newSessionId == IF sessionId # "" THEN sessionId ELSE Uuid(uu + 1)
         IN  [sessions |-> MapSet(kept, newSessionId,
                                  NewSession(newSessionId, tenantId, t)),
              id |-> newSessionId, created |-> TRUE,
              uuids |-> IF sessionId # "" THEN uu ELSE uu + 1]

\* SessionService.getSession at time t: the id of the session returned, ''
\* for null.
getSession(sessionId, all, t) ==
    IF sessionId \in DOMAIN all /\ isSessionValid(all[sessionId], t)
    THEN sessionId
    ELSE ""

\* array.slice(0, n)
SliceFirst(array, n) == SubSeq(array, 1, IF n > Len(array) THEN Len(array) ELSE n)

\* An addMessage that keeps the oldest messages of a full history.
addMessageKeepingOldest(sessionId, role, text, all, t, uu) ==
    IF sessionId \notin DOMAIN all
    THEN [threw |-> TRUE, sessions |-> all, uuids |-> uu]
    ELSE LET message == [id |-> Uuid(uu + 1), role |-> role, content |-> text]
             pushed == Append(all[sessionId].messages, message)
         IN  [threw |-> FALSE,
              sessions |-> [all EXCEPT
                  ![sessionId].messages =
                      IF Len(pushed) > MAX_HISTORY_LENGTH
                      THEN SliceFirst(pushed, MAX_HISTORY_LENGTH)
                      ELSE pushed,
                  ![sessionId].updatedAt = t,
                  ![sessionId].added = Append(@, message.id)],
              uuids |-> uu + 1]

\* SessionService.addMessage at time t: it throws 'Session not found' or
\* pushes the message and keeps the last MAX_HISTORY_LENGTH messages.
addMessage(sessionId, role, text, all, t, uu) ==
    IF sessionId \notin DOMAIN all
    THEN [threw |-> TRUE, sessions |-> all, uuids |-> uu]
    ELSE LET message == [id |-> Uuid(uu + 1), role |-> role, content |-> text]
             pushed == Append(all[sessionId].messages, message)
         IN  [threw |-> FALSE,
              sessions |-> [all EXCEPT
                  ![sessionId].messages =
                      IF Len(pushed) > MAX_HISTORY_LENGTH
                      THEN SliceLast(pushed, MAX_HISTORY_LENGTH)
                      ELSE pushed,
                  ![sessionId].updatedAt = t,
                  ![sessionId].added = Append(@, message.id)],
              uuids |-> uu + 1]

\* SessionService.updateSessionStatus at time t
updateSessionStatus(sessionId, status, all, t) ==
    IF sessionId \in DOMAIN all
    THEN [all EXCEPT ![sessionId].status = status, ![sessionId].updatedAt = t]
    ELSE all

\* SessionService.closeSession at time t
closeSession(sessionId, all, t) ==
    IF sessionId \in DOMAIN all
    THEN [all EXCEPT ![sessionId].status = "closed", ![sessionId].updatedAt = t]
    ELSE all

\* The sessions cleanupExpiredSessions deletes at time t.
Expired(all, t) == {id \in DOMAIN all : t - all[id].updatedAt >= SESSION_TTL_MS}

\* SessionService.cleanupExpiredSessions at time t
cleanupExpiredSessions(all, t) ==
    [sessions |-> [id \in DOMAIN all \ Expired(all, t) |-> all[id]],
     cleanedCount |-> Cardinality(Expired(all, t))]

-----------------------------------------------------------------------------
(* The AIService *)

\* The keywords of shouldEscalate: '人間', 'オペレーター', '担当者', '責任者'
KeywordHuman == <<20154, 38291>>
KeywordOperator == <<12458, 12506, 12524, 12540, 12479, 12540>>
KeywordStaff == <<25285, 24403, 32773>>
KeywordManager == <<36012, 20219, 32773>>

\* DEFAULT_SYSTEM_PROMPT, shortened to its first character.
DEFAULT_SYSTEM_PROMPT == <<12354>>

\* '【参考情報】\n' and '\n\n【お客様のご質問】\n'
ReferenceHeader == <<12304, 21442, 32771, 24773, 22577, 12305, 10>>
QuestionHeader ==
    <<10, 10, 12304, 12362, 23458, 27096, 12398, 12372, 36074, 21839, 12305, 10>>

\* knowledgeBaseResults.map(r => `- ${r.content} (出典: ${r.source})`).join('\n')
\* from the i-th result on
RECURSIVE JoinResults(_, _)
JoinResults(results, i) ==
    IF i > Len(results)
    THEN <<>>
    ELSE (IF i > 1 THEN <<10>> ELSE <<>>)
         \o <<45, 32>> \o results[i].content
         \o <<32, 40, 20986, 20856, 58, 32>> \o results[i].source \o <<41>>
         \o JoinResults(results, i + 1)

\* contextPrefix of buildClaudeMessages and buildOpenAIMessages
contextPrefix(results) ==
    IF Len(results) > 0
    THEN ReferenceHeader \o JoinResults(results, 1) \o QuestionHeader
    ELSE <<>>

\* The entry pushed for a message of the history.  of is the id of the message
\* it was made from ('' for an entry made of no stored message); it is not
\* part of the entry.
HistoryEntry(msg) == [role |-> msg.role, content |-> msg.content, of |-> msg.id]

\* The entry pushed last: the current user message behind the context prefix.
CurrentEntry(userMessage, context) ==
    [role |-> "user",
     content |-> contextPrefix(context.knowledgeBaseResults) \o userMessage,
     of |-> ""]

\* AIService.buildClaudeMessages
buildClaudeMessages(userMessage, context) ==
    LET kept == SelectSeq(context.conversationHistory,
                          LAMBDA msg : msg.role \in {"user", "assistant"})
    IN  [i \in 1..Len(kept) |-> HistoryEntry(kept[i])]
        \o <<CurrentEntry(userMessage, context)>>

\* AIService.buildOpenAIMessages
buildOpenAIMessages(userMessage, context) ==
    <<[role |-> "system", content |-> DEFAULT_SYSTEM_PROMPT, of |-> ""]>>
    \o [i \in 1..Len(context.conversationHistory) |->
            HistoryEntry(context.conversationHistory[i])]
    \o <<CurrentEntry(userMessage, context)>>

\* The answers of generatePlaceholderResponse and generateErrorResponse, each
\* shortened to a few characters that keep whether 'オペレーター' occurs in it:
\* 'ご返品', '配送', '人間のオペレーター', '申し訳…オペレーター'.
ReturnsReply == <<12372, 36820, 21697>>
ShippingReply == <<37197, 36865>>
OperatorReply == KeywordHuman \o <<12398>> \o KeywordOperator
ErrorReply == <<30003, 12375, 35379>> \o KeywordOperator

\* AIService.generatePlaceholderResponse; the default answer quotes the message.
generatePlaceholderResponse(userMessage) ==
    LET lowerMessage == toLowerCase(userMessage)
    IN  IF Includes(lowerMessage, <<36820, 21697>>)
            \/ Includes(lowerMessage, <<36820, 37329>>)
        THEN ReturnsReply
        ELSE IF Includes(lowerMessage, <<37197, 36865>>)
                \/ Includes(lowerMessage, <<23626>>)
        THEN ShippingReply
        ELSE IF Includes(lowerMessage, <<21839, 12356, 21512, 12431, 12379>>)
                \/ Includes(lowerMessage, KeywordHuman)
                \/ Includes(lowerMessage, KeywordOperator)
        THEN OperatorReply
        ELSE <<12300>> \o userMessage \o <<12301>>

\* Math.min
MathMin(a, b) == IF a < b THEN a ELSE b

\* AIService.calculateConfidence, in tenths: 0.6 + min(n * 0.1, 0.3), at most
\* 1.0.  (In floating point the sum for three sources is 0.8999999999999999.)
calculateConfidence(response, sources) == MathMin(6 + MathMin(Len(sources), 3), 10)

\* A shouldEscalate that does not know '責任者'.
shouldEscalateThreeKeywords(userMessage, response, confidence) ==
    LET lowerMessage == toLowerCase(userMessage)
    IN  IF Includes(lowerMessage, KeywordHuman)
            \/ Includes(lowerMessage, KeywordOperator)
            \/ Includes(lowerMessage, KeywordStaff)
        THEN TRUE
        ELSE confidence < 5

\* AIService.shouldEscalate, the confidence and the threshold 0.5 in tenths
shouldEscalate(userMessage, response, confidence) ==
    LET lowerMessage == toLowerCase(userMessage)
    IN  IF Includes(lowerMessage, KeywordHuman)
            \/ Includes(lowerMessage, KeywordOperator)
            \/ Includes(lowerMessage, KeywordStaff)
            \/ Includes(lowerMessage, KeywordManager)
        THEN TRUE
        ELSE confidence < 5

-----------------------------------------------------------------------------
(* The SessionService on its own, its methods called directly *)

\* The sessionIds callers name.
SessionIds == {"s1"}

SessionStatuses == {"active", "closed", "escalated"}

\* What the calls of the SessionService leave alone.
besidesSessions ==
    <<chunkVars, embedVars, storeVars, documents, ingest, search, preferredProvider>>

\* The step of the clock: the time after which a session expires.
ClockStepMs == SESSION_TTL_MS

\* Time passes.
Tick ==
    /\ now + ClockStepMs <= MaxTicks * ClockStepMs
    /\ now' = now + ClockStepMs
    /\ UNCHANGED <<besidesSessions, chat, sessions, nextUuid, out>>

GetOrCreateSession ==
    /\ \E sessionId \in SessionIds, tenantId \in Tenants :
        LET got == getOrCreateSession(sessionId, tenantId, sessions, now, nextUuid)
        IN  /\ sessions' = got.sessions
            /\ nextUuid' = got.uuids
            /\ out' = [op |-> "getOrCreateSession", id |-> got.id]
    /\ UNCHANGED <<besidesSessions, chat, now>>

GetSession ==
    /\ \E sessionId \in SessionIds :
        out' = [op |-> "getSession", id |-> getSession(sessionId, sessions, now)]
    /\ UNCHANGED <<besidesSessions, chat, sessions, now, nextUuid>>

\* addMessage is called as the chat route calls it: a user message first, an
\* assistant message after a user message.
AddMessage ==
    /\ nextUuid < MaxSessionUuid
    /\ \E sessionId \in SessionIds :
        LET role == IF sessionId \in DOMAIN sessions
                        /\ Len(sessions[sessionId].added) % 2 = 1
                    THEN "assistant"
                    ELSE "user"
            added == addMessage(sessionId, role, <<72, 105>>, sessions, now, nextUuid)
        IN  /\ sessions' = added.sessions
            /\ nextUuid' = added.uuids
            /\ out' = [op |-> "addMessage", threw |-> added.threw]
    /\ UNCHANGED <<besidesSessions, chat, now>>

UpdateSessionStatus ==
    /\ \E sessionId \in SessionIds, status \in SessionStatuses :
        sessions' = updateSessionStatus(sessionId, status, sessions, now)
    /\ out' = [op |-> "updateSessionStatus"]
    /\ UNCHANGED <<besidesSessions, chat, now, nextUuid>>

CloseSession ==
    /\ \E sessionId \in SessionIds :
        sessions' = closeSession(sessionId, sessions, now)
    /\ out' = [op |-> "closeSession"]
    /\ UNCHANGED <<besidesSessions, chat, now, nextUuid>>

\* The timer's cleanup.  A chat request in progress keeps the session object
\* it holds when the map drops it.
CleanupExpiredSessions ==
    /\ LET cleaned == cleanupExpiredSessions(sessions, now)
       IN  /\ sessions' = cleaned.sessions
           /\ out' = [op |-> "cleanupExpiredSessions",
                      cleanedCount |-> cleaned.cleanedCount]
    /\ chat' = IF chat.pc # "idle" /\ chat.session \in Expired(sessions, now)
               THEN [chat EXCEPT !.orphan = sessions[chat.session]]
               ELSE chat
    /\ UNCHANGED <<besidesSessions, now, nextUuid>>

SessionInit ==
    /\ content = <<>>
    /\ chunkConfig = KbConfig
    /\ chunkPc = "ready"
    /\ chunked = NotChunked
    /\ provider = "none"
    /\ call = [c \in Callers |-> IdleCall]
    /\ chunks = <<>>
    /\ tenantIndex = <<>>
    /\ documents = <<>>
    /\ nextUuid = 0
    /\ ingest = IdleIngest
    /\ search = IdleSearch
    /\ out = NoOutput
    /\ sessions = <<>>
    /\ now = 0
    /\ preferredProvider = "none"
    /\ chat = IdleChat

SessionNext ==
    \/ Tick
    \/ GetOrCreateSession
    \/ GetSession
    \/ AddMessage
    \/ UpdateSessionStatus
    \/ CloseSession
    \/ CleanupExpiredSessions

SpecSession == SessionInit /\ [][SessionNext]_vars

-----------------------------------------------------------------------------
(* The chat router *)

\* The messages of chat requests: none (or ''), a blank and 'A人間'.
ChatMessages == {<<>>, <<32>>, <<65>> \o KeywordHuman}

\* The tenantIds of chat requests; '' stands for a tenantId left out.
ChatTenants == {"", "t1"}

\* The texts the LLM answers with: 'OK'
LlmReplies == {<<79, 75>>}

\* The topK of the route's knowledge-base search
ChatTopK == 3

\* A result of the knowledge base: content 'a', source 'f'
KbResult == [content |-> <<97>>, source |-> <<102>>]

\* What knowledgeBaseService.search answers: it throws, or returns no result
\* or topK results.
KbAnswers ==
    {Thrown("Vectors must have same dimensions")}
    \cup {Value([i \in 1..n |-> KbResult]) : n \in {0, ChatTopK}}

\* No session object.
NoSession == NewSession("", "", 0)

\* The session object the request in progress holds: the one in the map, or
\* the one the map dropped.
HeldSession ==
    IF chat.session \in DOMAIN sessions THEN sessions[chat.session] ELSE chat.orphan

\* What the named session was when the request arrived.
FoundAs(sessionId) ==
    IF sessionId = "" \/ sessionId \notin DOMAIN sessions THEN "new"
    ELSE IF sessions[sessionId].status # "active" THEN sessions[sessionId].status
    ELSE IF now - sessions[sessionId].updatedAt >= SESSION_TTL_MS THEN "expired"
    ELSE "active"

\* SessionService.buildAIContext, with the results the route adds
buildAIContext(session, results) ==
    [sessionId |-> session.id, tenantId |-> session.tenantId,
     conversationHistory |-> session.messages, knowledgeBaseResults |-> results]

\* '\n\n※ご希望でしたら、人間のオペレーターにおつなぎすることも可能です。',
\* shortened to '\n\n※' and the two keywords in it.
EscalationHint == <<10, 10, 8251>> \o KeywordHuman \o KeywordOperator

\* What the route computes from the reply and the results of the search:
\* sources, confidence and the escalation flag.
Assess(message, reply, results) ==
    LET sources == [i \in 1..Len(results) |-> results[i].source]
        confidence == calculateConfidence(reply, sources)
    IN  [sources |-> sources, confidence |-> confidence,
         escalated |-> shouldEscalate(message, reply, confidence)]

\* chatRouter.post('/'), from the request to the await of the knowledge-base
\* search: validation, getOrCreateSession, addMessage.  message <<>> stands for
\* a message that is missing, not a string or empty; tenantId and sessionId ''
\* for values left out.  The request in progress has no answer yet.
ChatPost ==
    /\ chat.pc = "idle"
    /\ \E message \in ChatMessages, sessionId \in {""} \cup SessionIds,
          tenantId \in ChatTenants :
        IF message = <<>> \/ Len(Trim(message)) = 0 \/ Len(message) > 4000
        THEN /\ out' = [op |-> "chat", status |-> 400]
             /\ UNCHANGED <<sessions, nextUuid, chat>>
        ELSE /\ nextUuid + (IF sessionId = "" THEN 3 ELSE 2) <= MaxChatUuid
             /\ LET got == getOrCreateSession(sessionId,
                                              IF tenantId # "" THEN tenantId ELSE "default",
                                              sessions, now, nextUuid)
                    added == addMessage(got.id, "user", message, got.sessions, now,
                                        got.uuids)
                IN  /\ sessions' = added.sessions
                    /\ nextUuid' = added.uuids
                    /\ chat' = [pc |-> "awaitSearch", message |-> message,
                                sessionId |-> sessionId, tenantId |-> tenantId,
                                found |-> FoundAs(sessionId),
                                session |-> got.id, orphan |-> NoSession,
                                userMessageId |-> Uuid(got.uuids + 1),
                                kbQuery |-> [query |-> message,
                                             tenantId |-> got.sessions[got.id].tenantId,
                                             topK |-> ChatTopK,
                                             minScore |-> [p |-> 1, q |-> 2]],
                                knowledgeBaseResults |-> <<>>,
                                llmMessages |-> <<>>]
             /\ out' = NoOutput
    /\ UNCHANGED <<besidesSessions, now>>

\* The route resumes after the knowledge-base search (an error of the search
\* is caught and leaves no results), builds the context and calls
\* generateResponse, which builds the messages for the LLM and awaits it.
ChatSearched ==
    /\ chat.pc = "awaitSearch"
    /\ \E answer \in KbAnswers :
        LET knowledgeBaseResults == IF answer.threw THEN <<>> ELSE answer.value
            context == buildAIContext(HeldSession, knowledgeBaseResults)
        IN  chat' = [chat EXCEPT
                        !.pc = "awaitReply",
                        !.knowledgeBaseResults = knowledgeBaseResults,
                        !.llmMessages =
                            IF preferredProvider = "claude"
                            THEN buildClaudeMessages(chat.message, context)
                            ELSE IF preferredProvider = "openai"
                            THEN buildOpenAIMessages(chat.message, context)
                            ELSE <<>>]
    /\ UNCHANGED <<besidesSessions, sessions, now, nextUuid, out>>

\* The replies generateResponse can return: the placeholder without a
\* provider, else the LLM's text or, when the call fails, the error response.
Replies ==
    IF preferredProvider = "none"
    THEN {generatePlaceholderResponse(chat.message)}
    ELSE LlmReplies \cup {ErrorReply}

\* The route resumes after generateResponse: it adds the reply to the session,
\* computes confidence and escalation and answers; an addMessage that throws
\* goes to the catch, which answers 500.
ChatReplied ==
    /\ chat.pc = "awaitReply"
    /\ \E reply \in Replies :
        LET added == addMessage(chat.session, "assistant", reply, sessions, now, nextUuid)
            assessed == Assess(chat.message, reply, chat.knowledgeBaseResults)
            request == [sessionId |-> chat.sessionId, found |-> chat.found]
        IN  IF added.threw
            THEN /\ out' = [op |-> "chat", status |-> 500, request |-> request]
                 /\ UNCHANGED <<sessions, nextUuid>>
            ELSE /\ sessions' = added.sessions
                 /\ nextUuid' = added.uuids
                 /\ out' = [op |-> "chat", status |-> 200, request |-> request,
                            reply |-> IF assessed.escalated
                                            /\ ~Includes(reply, KeywordOperator)
                                      THEN reply \o EscalationHint
                                      ELSE reply,
                            sessionId |-> chat.session,
                            confidence |-> assessed.confidence,
                            sources |-> assessed.sources,
                            escalated |-> assessed.escalated]
    /\ chat' = IdleChat
    /\ UNCHANGED <<besidesSessions, now>>

\* chatRouter.get('/history/:sessionId')
History ==
    /\ \E sessionId \in SessionIds :
        LET id == getSession(sessionId, sessions, now)
        IN  out' = IF id = ""
                   THEN [op |-> "history", status |-> 404]
                   ELSE [op |-> "history", status |-> 200, sessionId |-> id,
                         messageCount |-> Len(sessions[id].messages)]
    /\ UNCHANGED <<besidesSessions, sessions, now, nextUuid, chat>>

\* The message of the escalate route with no reason given, shortened to
\* '人間のオペレーター' and '指定なし'.
EscalationNotice ==
    KeywordHuman \o <<12398>> \o KeywordOperator \o <<25351, 23450, 12394, 12375>>

\* chatRouter.post('/escalate'); the ticketId takes a uuid.
Escalate ==
    /\ \E sessionId \in {""} \cup SessionIds :
        IF sessionId = ""
        THEN /\ out' = [op |-> "escalate", status |-> 400]
             /\ UNCHANGED <<sessions, nextUuid>>
        ELSE IF getSession(sessionId, sessions, now) = ""
        THEN /\ out' = [op |-> "escalate", status |-> 404]
             /\ UNCHANGED <<sessions, nextUuid>>
        ELSE /\ nextUuid + 2 <= MaxChatUuid
             /\ LET updated == updateSessionStatus(sessionId, "escalated", sessions, now)
                    added == addMessage(sessionId, "assistant", EscalationNotice,
                                        updated, now, nextUuid)
                IN  /\ sessions' = added.sessions
                    /\ nextUuid' = added.uuids + 1
                    /\ out' = [op |-> "escalate", status |-> 200,
                               messageCount |-> Len(added.sessions[sessionId].messages)]
    /\ UNCHANGED <<besidesSessions, now, chat>>

\* chatRouter.post('/close')
Close ==
    /\ \E sessionId \in {""} \cup SessionIds :
        IF sessionId = ""
        THEN /\ out' = [op |-> "close", status |-> 400]
             /\ UNCHANGED sessions
        ELSE /\ sessions' = closeSession(sessionId, sessions, now)
             /\ out' = [op |-> "close", status |-> 200]
    /\ UNCHANGED <<besidesSessions, now, nextUuid, chat>>

ChatInit ==
    /\ content = <<>>
    /\ chunkConfig = KbConfig
    /\ chunkPc = "ready"
    /\ chunked = NotChunked
    /\ provider = "none"
    /\ call = [c \in Callers |-> IdleCall]
    /\ chunks = <<>>
    /\ tenantIndex = <<>>
    /\ documents = <<>>
    /\ nextUuid = 0
    /\ ingest = IdleIngest
    /\ search = IdleSearch
    /\ out = NoOutput
    /\ sessions = <<>>
    /\ now = 0
    /\ preferredProvider \in {"claude", "openai", "none"}
    /\ chat = IdleChat

ChatNext ==
    \/ ChatPost
    \/ ChatSearched
    \/ ChatReplied
    \/ History
    \/ Escalate
    \/ Close
    \/ CleanupExpiredSessions
    \/ Tick

SpecChat == ChatInit /\ [][ChatNext]_vars

-----------------------------------------------------------------------------
(* The route's confidence and escalation, on messages and results of any kind *)

EscalationKeywords == {KeywordHuman, KeywordOperator, KeywordStaff, KeywordManager}

\* User messages: each keyword alone, behind 'A' and between 'a' and '?', each
\* keyword without its last character, 'Hi' and 'HELP'.
AssessMessages ==
    EscalationKeywords
    \cup {<<65>> \o k : k \in EscalationKeywords}
    \cup {<<97>> \o k \o <<63>> : k \in EscalationKeywords}
    \cup {SubSeq(k, 1, Len(k) - 1) : k \in EscalationKeywords}
    \cup {<<72, 105>>, <<72, 69, 76, 80>>}

\* Replies: the LLM's, the error response and the placeholder's answers.
AssessReplies == LlmReplies \cup {ErrorReply, OperatorReply}

\* The route's assessment of a reply to message, given n results of the
\* knowledge base.
Assessed ==
    /\ \E message \in AssessMessages, reply \in AssessReplies, n \in 0..MaxSources :
        LET assessed == Assess(message, reply, [i \in 1..n |-> KbResult])
        IN  out' = [op |-> "assess", message |-> message, reply |-> reply,
                    sources |-> assessed.sources,
                    confidence |-> assessed.confidence,
                    escalated |-> assessed.escalated]
    /\ UNCHANGED <<besidesSessions, chat, sessions, now, nextUuid>>

AssessInit ==
    /\ content = <<>>
    /\ chunkConfig = KbConfig
    /\ chunkPc = "ready"
    /\ chunked = NotChunked
    /\ provider = "none"
    /\ call = [c \in Callers |-> IdleCall]
    /\ chunks = <<>>
    /\ tenantIndex = <<>>
    /\ documents = <<>>
    /\ nextUuid = 0
    /\ ingest = IdleIngest
    /\ search = IdleSearch
    /\ out = NoOutput
    /\ sessions = <<>>
    /\ now = 0
    /\ preferredProvider = "none"
    /\ chat = IdleChat

SpecAssess == AssessInit /\ [][Assessed]_vars

-----------------------------------------------------------------------------
(* Claims about the chunker, checked under SpecChunk *)

ShortDocument == Len(content) <= chunkConfig.maxChunkSize

\* C8, as stated: a document of at most maxChunkSize characters (exactly
\* maxChunkSize included) gives exactly one chunk, with chunkIndex 0, whose
\* content is the trimmed input.
C8_ShortDocIsOneTrimmedChunk ==
    (chunkPc = "done" /\ ShortDocument) =>
        /\ ~chunked.diverges
        /\ Len(chunked.list) = 1
        /\ chunked.list[1].chunkIndex = 0
        /\ chunked.list[1].content = Trim(content)

\* C8, amended: a document of at most maxChunkSize characters (exactly
\* maxChunkSize included) gives exactly one chunk, with chunkIndex 0, whose
\* content is the input as it is, leading and trailing white space kept.
C8_ShortDocIsOneChunkAsIs ==
    (chunkPc = "done" /\ ShortDocument) =>
        /\ ~chunked.diverges
        /\ Len(chunked.list) = 1
        /\ chunked.list[1].chunkIndex = 0
        /\ chunked.list[1].content = content

\* A chunked document of exactly maxChunkSize characters that trimming would
\* shorten.
C8_Witness ==
    /\ chunkPc = "done"
    /\ Len(content) = chunkConfig.maxChunkSize
    /\ Trim(content) # content
    /\ Trim(content) # <<>>

\* C9: no chunk that chunking produces has empty or white-space-only content,
\* for every document content and every configuration.
C9_NoBlankChunk ==
    chunkPc = "done" =>
        \A i \in 1..Len(chunked.list) : Trim(chunked.list[i].content) # <<>>

\* C10: with overlapSize < maxChunkSize, every chunk produced is at most
\* maxChunkSize + overlapSize characters long, whatever the nesting of
\* separators in the text.
C10_ChunkLengthBound ==
    (chunkPc = "done" /\ chunkConfig.overlapSize < chunkConfig.maxChunkSize) =>
        \A i \in 1..Len(chunked.list) :
            Len(chunked.list[i].content)
                <= chunkConfig.maxChunkSize + chunkConfig.overlapSize

\* piece is a run of consecutive characters of text.
IsPieceOf(piece, text) ==
    piece = <<>> \/ \E i \in 1..Len(text) : OccursAt(text, piece, i)

\* C11: no chunk carries more than one overlap prefix: each chunk, less a
\* prefix of at most overlapSize characters (none for the first chunk), is a
\* piece of the document.
C11_AtMostOneOverlapPrefix ==
    chunkPc = "done" =>
        \A i \in 1..Len(chunked.list) :
            LET chunk == chunked.list[i].content
            IN  \E p \in 0..chunkConfig.overlapSize :
                    /\ p <= Len(chunk)
                    /\ i = 1 => p = 0
                    /\ IsPieceOf(SubSeq(chunk, p + 1, Len(chunk)), content)

\* The contents of the chunks produced, in chunkIndex order.
ChunkContents == [i \in 1..Len(chunked.list) |-> chunked.list[i].content]

\* From the i-th chunk on, each chunk starts with the last overlapSize
\* characters of the pre-overlap segment of the chunk before it; the
\* pre-overlap segment of a chunk is the chunk less that prefix.
RECURSIVE StartsWithOverlapFrom(_, _, _, _)
StartsWithOverlapFrom(list, i, prevSegment, overlapSize) ==
    IF i > Len(list)
    THEN TRUE
    ELSE LET prefix == SliceLast(prevSegment, overlapSize)
         IN  /\ Len(prefix) <= Len(list[i])
             /\ SubSeq(list[i], 1, Len(prefix)) = prefix
             /\ StartsWithOverlapFrom(list, i + 1,
                                      SubSeq(list[i], Len(prefix) + 1, Len(list[i])),
                                      overlapSize)

\* C12: in a result of several chunks with overlapSize > 0, chunk 0 carries no
\* prefix and every later chunk starts with the last overlapSize characters of
\* the pre-overlap segment of the chunk before it.
C12_ChunkStartsWithOverlap ==
    (chunkPc = "done" /\ Len(chunked.list) > 1 /\ chunkConfig.overlapSize > 0) =>
        StartsWithOverlapFrom(ChunkContents, 2, ChunkContents[1],
                              chunkConfig.overlapSize)

\* The characters of s that are not white space, in order.
NonWhite(s) == SelectSeq(s, LAMBDA c : ~IsWhitespace(c))

\* The chunks from the i-th on, each less an overlap prefix of at most
\* overlapSize characters (none for the first chunk), spell rest when white
\* space is left out.
RECURSIVE Reassembles(_, _, _, _)
Reassembles(list, i, rest, overlapSize) ==
    IF i > Len(list)
    THEN rest = <<>>
    ELSE \E p \in 0..(IF i = 1 THEN 0 ELSE overlapSize) :
            /\ p <= Len(list[i])
            /\ LET body == NonWhite(SubSeq(list[i], p + 1, Len(list[i])))
               IN  /\ Len(body) <= Len(rest)
                   /\ SubSeq(rest, 1, Len(body)) = body
                   /\ Reassembles(list, i + 1,
                                  SubSeq(rest, Len(body) + 1, Len(rest)),
                                  overlapSize)

\* C13: the chunks with their overlap prefixes removed, read in chunkIndex
\* order, spell the document with nothing but white space lost and nothing
\* reordered.
C13_ChunksReassembleContent ==
    (chunkPc = "done" /\ ~chunked.diverges) =>
        Reassembles(ChunkContents, 1, NonWhite(content), chunkConfig.overlapSize)

\* C14: chunking returns a finite list of chunks for every text and every
\* configuration, overlapSize >= maxChunkSize and texts without any separator
\* included.
C14_ChunkingReturns ==
    chunkPc = "done" => ~chunked.diverges

\* C26: the chunks ingest counts in a success result (chunks.length) are the
\* ones chunkDocument returns: for a content that is not empty, whitespace
\* only and longer than maxChunkSize included, there is at least one.
C26_AtLeastOneChunk ==
    (chunkPc = "done" /\ ~chunked.diverges /\ Len(content) >= 1) =>
        Len(chunked.list) >= 1

-----------------------------------------------------------------------------
(* Claims about the EmbeddingService, checked under SpecEmbed *)

\* The value of a vector at index j (0-based), as a numerator over sqrt(den2).
NumeratorAt(v, j) == IF j \in DOMAIN v.nz THEN v.nz[j] ELSE 0

\* A response that the remote service computed for text.
IsRemoteFor(response, text) ==
    /\ response.model = RemoteModel
    /\ \E dim \in RemoteDims : response.embedding = RemoteVector(text, dim)

\* A response that holds the embedding of text, by the remote service or by
\* the fallback.
IsEmbeddingOf(response, text) ==
    \/ IsRemoteFor(response, text)
    \/ response.embedding = simpleEmbedding(text).embedding

BatchDone(c) == call[c].fn = "embedBatch" /\ call[c].phase = "done"

\* C4: embedBatch(texts) returns exactly as many vectors as there are texts,
\* the i-th being the embedding of the i-th text, whatever the remote service
\* does (success, failure, a response with another number of items).
C4_BatchOneVectorPerText ==
    \A c \in Callers :
        BatchDone(c) =>
            /\ Len(call[c].items) = Len(call[c].texts)
            /\ \A i \in 1..Len(call[c].items) :
                    IsEmbeddingOf(call[c].items[i], call[c].texts[i])

\* C5, as stated: when the remote batch call fails, embedBatch returns one
\* vector per text, each computed by the fallback (none by a further remote
\* call).
C5_BatchFailureAllFallback ==
    \A c \in Callers :
        (BatchDone(c) /\ call[c].batchFailed) =>
            /\ Len(call[c].items) = Len(call[c].texts)
            /\ \A i \in 1..Len(call[c].items) :
                    call[c].items[i] = simpleEmbedding(call[c].texts[i])

\* C5, amended: when the remote batch call fails, embedBatch returns one
\* response per text, in the order of the texts, and the i-th is what
\* embed(texts[i]) answers: the remote vector of that text when the further
\* single-text remote call succeeds, the fallback embedding of that text when
\* it fails.
C5_BatchFailureEachEmbed ==
    \A c \in Callers :
        (BatchDone(c) /\ call[c].batchFailed) =>
            /\ Len(call[c].items) = Len(call[c].texts)
            /\ \A i \in 1..Len(call[c].items) :
                    \/ call[c].items[i] = simpleEmbedding(call[c].texts[i])
                    \/ IsRemoteFor(call[c].items[i], call[c].texts[i])

\* A batch whose remote batch call failed, returned with one vector of a
\* further remote call and one of the fallback.
C5_Witness ==
    \E c \in Callers :
        /\ BatchDone(c) /\ call[c].batchFailed
        /\ \E i, j \in 1..Len(call[c].items) :
            /\ IsRemoteFor(call[c].items[i], call[c].texts[i])
            /\ call[c].items[j] = simpleEmbedding(call[c].texts[j])

\* The number of positions i (0-based) of the lower-cased text whose code c
\* has (c + i) mod 384 = j.
HitsAt(text, j) ==
    LET lower == toLowerCase(text)
    IN  Cardinality({i \in 0..(Len(lower) - 1) : (lower[i + 1] + i) % 384 = j})

FallbackDone(c) ==
    provider # "openai" /\ call[c].fn = "embed" /\ call[c].phase = "done"

\* C7: with no remote provider in use, embed(text) returns the vector of
\* length 384 that has, before normalisation, at each index j the number of
\* positions i of the lower-cased text with (code + i) mod 384 = j, divided by
\* its Euclidean norm (all zero for the empty text), with tokenCount
\* ceil(length / 4): a function of the text alone.
C7_FallbackEmbedding ==
    \A c \in Callers :
        FallbackDone(c) =>
            LET text == call[c].texts[1]
                r == call[c].items[1]
                v == r.embedding
            IN  /\ v.dim = 384
                /\ DOMAIN v.nz \subseteq 0..383
                /\ \A j \in 0..383 : NumeratorAt(v, j) = HitsAt(text, j)
                /\ IF text = <<>>
                   THEN v.nz = <<>>
                   ELSE v.den2 = SumOver([j \in 0..383 |-> HitsAt(text, j) * HitsAt(text, j)],
                                         {j \in 0..383 : HitsAt(text, j) > 0})
                /\ r.tokenCount * 4 >= Len(text)
                /\ (r.tokenCount - 1) * 4 < Len(text)

\* A fallback embedding of a text of several characters, an upper-case one
\* and one that lower-casing lengthens among them, two of them hitting one
\* index.
C7_Witness ==
    \E c \in Callers :
        /\ FallbackDone(c)
        /\ Len(call[c].texts[1]) >= 3
        /\ \E i, j \in 1..Len(call[c].texts[1]) :
                call[c].texts[1][i] = 65 /\ call[c].texts[1][j] = 304
        /\ \E j \in 0..383 : NumeratorAt(call[c].items[1].embedding, j) >= 2

-----------------------------------------------------------------------------
(* Claims about the vector store and the knowledge base *)

\* C1: every search, of the store or of the knowledge base, for tenant t
\* returns only chunks whose tenantId is t, also after an upsert that re-uses
\* a chunk id under another tenant.
C1_SearchReturnsOwnTenantOnly ==
    /\ (out.op = "vectorSearch" /\ ~out.threw) =>
            \A i \in 1..Len(out.value) : out.value[i].chunk.tenantId = out.tenantId
    /\ (out.op = "search" /\ ~out.threw) =>
            \A i \in 1..Len(out.value) : out.value[i].of.tenantId = out.tenantId

\* The query of the last KnowledgeBaseService.search was embedded by the
\* fallback because the remote call failed.
SearchRemoteFailed ==
    /\ out.op = "search"
    /\ provider = "openai"
    /\ out.queryModel = "simple-fallback"

\* C2: a failure of the remote embedding call never makes ingest report a
\* failed document nor search raise an error.
C2_RemoteFailureNeverSurfaces ==
    /\ SearchRemoteFailed => ~out.threw
    /\ out.op = "ingest" =>
            \A i \in 1..Len(out.results) :
                out.results[i].remoteFailed => out.results[i].status = "success"

\* C3: every search and every ingest call eventually completes, also when the
\* remote embedding call never answers.
C3_CallsComplete ==
    /\ (search.pc # "idle") ~> (search.pc = "idle")
    /\ (ingest.pc # "idle") ~> (ingest.pc = "idle")

\* The ids of tenantId's set whose chunk has an embedding of another length
\* than the query's.
Mismatched(embedding, tenantId) ==
    IF tenantId \notin DOMAIN tenantIndex
    THEN {}
    ELSE {i \in 1..Len(tenantIndex[tenantId]) :
            LET id == tenantIndex[tenantId][i]
            IN  /\ id \in DOMAIN chunks
                /\ HasEmbedding(chunks[id])
                /\ chunks[id].embedding.dim # embedding.dim}

\* C6: cosineSimilarity throws for every two vectors of different lengths, and
\* the store's search throws whenever a chunk of the tenant has an embedding of
\* another length than the query's.
C6_MismatchIsRaised ==
    /\ \A a \in DirectQueries, id \in DOMAIN chunks :
            (HasEmbedding(chunks[id]) /\ chunks[id].embedding.dim # a.dim)
                => /\ cosineSimilarity(a, chunks[id].embedding).threw
                   /\ cosineSimilarity(chunks[id].embedding, a).threw
    /\ out.op = "vectorSearch" =>
            (out.threw <=> Mismatched(out.embedding, out.tenantId) # {})

\* C6: a search of the store has met a chunk whose embedding has another
\* length than the query's, and has thrown.
C6_Witness ==
    /\ out.op = "vectorSearch"
    /\ out.threw
    /\ Mismatched(out.embedding, out.tenantId) # {}

\* A stored chunk was made of the document: it is one of the pieces of the
\* document's content, at its chunkIndex.
IsPieceOfDocument(chunk, document) ==
    LET pieces == chunkDocument(document.content, chunkConfig).list
    IN  \E i \in 1..Len(pieces) :
            /\ pieces[i].chunkIndex = chunk.chunkIndex
            /\ pieces[i].content = chunk.content

\* C15: the chunks made for a document carry its id and its tenantId when they
\* are handed to the index, and every chunk of the index whose documentId is
\* that of a stored document has that document's tenantId and is a piece of it.
C15_ChunkCarriesItsDocument ==
    /\ ingest.pc \in {"awaitEmbed", "awaitUpsert"} =>
            \A i \in 1..Len(ingest.chunks) :
                /\ ingest.chunks[i].documentId = ingest.document.id
                /\ ingest.chunks[i].tenantId = ingest.document.tenantId
    /\ \A k \in 1..Len(documents), id \in DOMAIN chunks :
            chunks[id].documentId = documents[k].id =>
                /\ chunks[id].tenantId = documents[k].tenantId
                /\ IsPieceOfDocument(chunks[id], documents[k])

\* C15: a document is stored and two chunks of the index were made for it.
C15_Witness ==
    \E k \in 1..Len(documents), id1, id2 \in DOMAIN chunks :
        /\ id1 # id2
        /\ chunks[id1].documentId = documents[k].id
        /\ chunks[id2].documentId = documents[k].id

\* The ids of the stored chunks of a tenant that have an embedding.
EmbeddedOf(tenantId) ==
    {id \in DOMAIN chunks :
        chunks[id].tenantId = tenantId /\ HasEmbedding(chunks[id])}

\* The smaller of two numbers.
Min(a, b) == IF a <= b THEN a ELSE b

\* The place of an id in a tenant's membership set, in insertion order (0 when
\* it is not in the set).
PlaceIn(tenantId, id) ==
    IF tenantId \in DOMAIN tenantIndex
       /\ \E i \in 1..Len(tenantIndex[tenantId]) : tenantIndex[tenantId][i] = id
    THEN CHOOSE i \in 1..Len(tenantIndex[tenantId]) : tenantIndex[tenantId][i] = id
    ELSE 0

\* The results are in descending order of score, chunks of equal score in the
\* order of their insertion.
DescendingStable(results, tenantId) ==
    \A i, j \in 1..Len(results) :
        i < j =>
            /\ ~ScoreGreater(results[j].score, results[i].score)
            /\ ~ScoreGreater(results[i].score, results[j].score) =>
                    PlaceIn(tenantId, results[i].chunk.id)
                        < PlaceIn(tenantId, results[j].chunk.id)

\* (Every step that leaves a store search in `out` is a search, and a search
\* leaves the store as it is: the store of the step is the store searched.)
\* C16: a search of the store that returns gives min(topK, n) results, n the
\* number of the tenant's chunks that have an embedding, in descending order
\* of score, stable on ties, and no chunk left out scores strictly higher than
\* a chunk returned.
C16_TopKByScore ==
    [][(out'.op = "vectorSearch" /\ ~out'.threw) =>
        /\ Len(out'.value) = Min(out'.topK, Cardinality(EmbeddedOf(out'.tenantId)))
        /\ DescendingStable(out'.value, out'.tenantId)
        /\ \A id \in EmbeddedOf(out'.tenantId) :
                (\A i \in 1..Len(out'.value) : out'.value[i].chunk.id # id) =>
                    \A i \in 1..Len(out'.value) :
                        ~ScoreGreater(
                            cosineSimilarity(out'.embedding, chunks[id].embedding).value,
                            out'.value[i].score)]_vars

\* C17, as stated: the results of a knowledge-base search are in strictly
\* descending order of relevanceScore, and none is below minScore.
C17_StrictlyDescendingAboveMinScore ==
    (out.op = "search" /\ ~out.threw) =>
        /\ \A i, j \in 1..Len(out.value) :
                i < j => ScoreGreater(out.value[i].relevanceScore,
                                      out.value[j].relevanceScore)
        /\ \A i \in 1..Len(out.value) :
                ScoreAtLeast(out.value[i].relevanceScore, out.minScore)

\* C17, amended: the results of a knowledge-base search are in descending
\* order of relevanceScore, equal scores allowed, and none is below minScore.
C17_DescendingAboveMinScore ==
    (out.op = "search" /\ ~out.threw) =>
        /\ \A i, j \in 1..Len(out.value) :
                i < j => ~ScoreGreater(out.value[j].relevanceScore,
                                       out.value[i].relevanceScore)
        /\ \A i \in 1..Len(out.value) :
                ScoreAtLeast(out.value[i].relevanceScore, out.minScore)

\* C17: a knowledge-base search has returned two chunks of identical content,
\* with equal scores.
C17_Witness ==
    /\ out.op = "search"
    /\ ~out.threw
    /\ Len(out.value) = 2
    /\ out.value[1].content = out.value[2].content
    /\ ~ScoreGreater(out.value[1].relevanceScore, out.value[2].relevanceScore)
    /\ ~ScoreGreater(out.value[2].relevanceScore, out.value[1].relevanceScore)

\* The score of a stored chunk against a query embedding.
ScoreOf(embedding, id) == cosineSimilarity(embedding, chunks[id].embedding).value

\* The embedded chunks of a tenant whose score reaches minScore.
Qualifying(embedding, tenantId, minScore) ==
    {id \in EmbeddedOf(tenantId) : ScoreAtLeast(ScoreOf(embedding, id), minScore)}

\* Chunk id1 comes before chunk id2 in descending order of score, chunks of
\* equal score in the order of their insertion.
Before(embedding, tenantId, id1, id2) ==
    \/ ScoreGreater(ScoreOf(embedding, id1), ScoreOf(embedding, id2))
    \/ /\ ~ScoreGreater(ScoreOf(embedding, id2), ScoreOf(embedding, id1))
       /\ PlaceIn(tenantId, id1) < PlaceIn(tenantId, id2)

\* value is the first topK, in descending order of score, of the embedded
\* chunks of the tenant that reach minScore, each with its content, its score
\* and its source ('Unknown' for an empty one).
IsFirstTopK(value, embedding, tenantId, topK, minScore) ==
    LET all == Qualifying(embedding, tenantId, minScore)
    IN  /\ Len(value) = Min(topK, Cardinality(all))
        /\ \A i \in 1..Len(value) :
                /\ value[i].of.id \in all
                /\ value[i].of = chunks[value[i].of.id]
                /\ value[i].content = value[i].of.content
                /\ value[i].relevanceScore = ScoreOf(embedding, value[i].of.id)
                /\ value[i].source = IF value[i].of.source = "" THEN "Unknown"
                                     ELSE value[i].of.source
        /\ \A i, j \in 1..Len(value) :
                i < j => Before(embedding, tenantId, value[i].of.id, value[j].of.id)
        /\ \A id \in all :
                (\A i \in 1..Len(value) : value[i].of.id # id) =>
                    \A i \in 1..Len(value) :
                        Before(embedding, tenantId, value[i].of.id, id)

C19_EmptyWhenNothingToReturn ==
    [][(out'.op = "vectorSearch" /\ EmbeddedOf(out'.tenantId) = {}) =>
            (~out'.threw /\ out'.value = <<>>)]_vars

\* The ids in a tenant's membership set.
MembersOf(tenantId) ==
    IF tenantId \in DOMAIN tenantIndex
    THEN {tenantIndex[tenantId][i] : i \in 1..Len(tenantIndex[tenantId])}
    ELSE {}

\* The ids of the chunks stored with a tenantId.
OwnedBy(tenantId) == {id \in DOMAIN chunks : chunks[id].tenantId = tenantId}

\* C20: in every state of the store an id is in a tenant's membership set
\* exactly when a chunk with that id and that tenantId is stored; no id is in
\* the sets of two tenants, and getStats().totalChunks is the sum of
\* chunksByTenant.
C20_IndexMatchesOwnership ==
    /\ \A t \in Tenants : MembersOf(t) = OwnedBy(t)
    /\ \A t1, t2 \in Tenants : t1 # t2 => MembersOf(t1) \cap MembersOf(t2) = {}
    /\ LET stats == getStats(Store)
       IN  stats.totalChunks
               = SumOver(stats.chunksByTenant, DOMAIN stats.chunksByTenant)

\* The ids of a sequence of ids.
IdsOf(ids) == {ids[i] : i \in 1..Len(ids)}

\* C21: delete(ids) takes every id that is present out of the chunk map and
\* out of the membership set of the tenant of its chunk, and leaves everything
\* else of the store as it was (all of it when no id is present); a second
\* delete of the same ids changes nothing.
C21_DeleteRemovesPresentIds ==
    [][out'.op = "delete" =>
        LET gone == IdsOf(out'.ids) \cap DOMAIN chunks
            after == [chunks |-> chunks', tenantIndex |-> tenantIndex',
                      uuids |-> nextUuid']
        IN  /\ chunks' = [k \in DOMAIN chunks \ gone |-> chunks[k]]
            /\ DOMAIN tenantIndex' = DOMAIN tenantIndex
            /\ \A t \in DOMAIN tenantIndex :
                    tenantIndex'[t] =
                        SelectSeq(tenantIndex[t],
                                  LAMBDA x : ~(x \in gone /\ chunks[x].tenantId = t))
            /\ gone = {} => (chunks' = chunks /\ tenantIndex' = tenantIndex)
            /\ delete(out'.ids, after) = after]_vars

\* C21: a delete has been given an id that was present and an id that was not.
C21_Witness ==
    /\ out.op = "delete"
    /\ out.present # {}
    /\ IdsOf(out.ids) \ out.present # {}
    /\ IdsOf(out.ids) \cap DOMAIN chunks = {}
    /\ \A t \in DOMAIN tenantIndex :
            \A i \in 1..Len(tenantIndex[t]) : tenantIndex[t][i] \notin out.present

\* C22: after deleteByTenant(t) no chunk with tenantId t is stored and a
\* search for t returns an empty list; the chunks of the other tenants and
\* their membership sets are as before, and nothing changes when t had no
\* chunk.
C22_DeleteByTenantOnlyThatTenant ==
    [][out'.op = "deleteByTenant" =>
        LET t == out'.tenantId
            after == [chunks |-> chunks', tenantIndex |-> tenantIndex',
                      uuids |-> nextUuid']
        IN  /\ \A id \in DOMAIN chunks' : chunks'[id].tenantId # t
            /\ \A q \in DirectQueries, k \in TopKs :
                    vectorSearch(q, t, k, after) = Value(<<>>)
            /\ \A id \in DOMAIN chunks :
                    chunks[id].tenantId # t =>
                        (id \in DOMAIN chunks' /\ chunks'[id] = chunks[id])
            /\ \A u \in Tenants \ {t} : MembersOf(u)' = MembersOf(u)
            /\ OwnedBy(t) = {} => chunks' = chunks]_vars

\* The ids in a tenant's set of a membership index.
MembersIn(index, tenantId) ==
    IF tenantId \in DOMAIN index
    THEN {index[tenantId][i] : i \in 1..Len(index[tenantId])}
    ELSE {}

\* The number of chunks of a batch that come without an id.
FreshIn(batch) == Cardinality({i \in 1..Len(batch) : batch[i].id = ""})

\* C23: the store passes from the state before an upsert to a state that
\* holds the whole batch, with no state in between for a search or another
\* upsert to see: after the step every chunk of the batch is in the chunk map
\* (under its id, or under a new uuid) and in the membership set of its
\* tenant, and the chunk map has gained no other id.
C23_UpsertInstallsWholeBatch ==
    [][out'.op = "upsert" =>
        LET batch == out'.batch
            given == {i \in 1..Len(batch) : batch[i].id # ""}
            fresh == {Uuid(n) : n \in (nextUuid + 1)..nextUuid'}
        IN  /\ nextUuid' = nextUuid + FreshIn(batch)
            /\ \A i \in given :
                    /\ batch[i].id \in DOMAIN chunks'
                    /\ batch[i].id \in MembersIn(tenantIndex', batch[i].tenantId)
            /\ \A id \in fresh :
                    /\ id \in DOMAIN chunks'
                    /\ id \in MembersIn(tenantIndex', chunks'[id].tenantId)
                    /\ \E i \in 1..Len(batch) :
                            /\ batch[i].id = ""
                            /\ chunks'[id] = [batch[i] EXCEPT !.id = id]
            /\ DOMAIN chunks' = DOMAIN chunks \cup fresh
                                    \cup {batch[i].id : i \in given}]_vars

\* C23: a batch of two chunks for one tenant has been upserted, and both are
\* in the chunk map and in the tenant's membership set.
C23_Witness ==
    /\ out.op = "upsert"
    /\ Len(out.batch) = 2
    /\ out.batch[1].tenantId = out.batch[2].tenantId
    /\ out.batch[1].id # out.batch[2].id
    /\ Cardinality(OwnedBy(out.batch[1].tenantId)) = 2
    /\ MembersOf(out.batch[1].tenantId) = OwnedBy(out.batch[1].tenantId)

\* A call of ingest returns in this step.
IngestReturns == ingest.pc # "idle" /\ ingest'.pc = "idle"

\* C24: ingest returns one result for each document of the request, in the
\* order of the request: a success with the id of the document and the number
\* of its chunks, or a failure with an error text, no document id and
\* chunksCreated 0; a failure does not keep the documents after it from being
\* processed and reported.
C24_OneResultPerDocument ==
    [][IngestReturns =>
        /\ out'.op = "ingest"
        /\ Len(out'.results) = Len(ingest.docs)
        /\ \A k \in 1..Len(ingest.docs) :
            LET result == out'.results[k]
            IN  \/ /\ result.status = "success"
                   /\ result.documentId # ""
                   /\ result.chunksCreated
                        = Len(chunkDocument(ingest.docs[k].content, chunkConfig).list)
                \/ /\ result.status = "failed"
                   /\ result.documentId = ""
                   /\ result.chunksCreated = 0
                   /\ result.error # ""
        /\ \A j, k \in 1..Len(ingest.docs) :
                (j < k /\ out'.results[j].status = "success"
                       /\ out'.results[k].status = "success") =>
                    out'.results[j].documentId # out'.results[k].documentId]_vars

\* C24: an ingest of two documents has returned, the first one failed and the
\* second one stored.
C24_Witness ==
    /\ out.op = "ingest"
    /\ Len(out.results) = 2
    /\ out.results[1].status = "failed"
    /\ out.results[2].status = "success"
    /\ \E i \in 1..Len(documents) : documents[i].id = out.results[2].documentId

\* The document is stored.
IsStored(document) == \E i \in 1..Len(documents) : documents[i].id = document.id

\* The ids of the chunks in the index that belong to the document.
IndexedChunksOf(document) ==
    {id \in DOMAIN chunks : chunks[id].documentId = document.id}

\* C25: in every state that another operation can see, the document ingest is
\* working on is either stored with all of its chunks in the index, each with
\* an embedding, or not stored with none of its chunks in the index.
C25_IngestAtomicPerDocument ==
    ingest.pc \in {"awaitEmbed", "awaitUpsert"} =>
        \/ /\ IsStored(ingest.document)
           /\ \A i \in 1..Len(ingest.chunks) :
                /\ ingest.chunks[i].id \in DOMAIN chunks
                /\ HasEmbedding(chunks[ingest.chunks[i].id])
        \/ /\ ~IsStored(ingest.document)
           /\ IndexedChunksOf(ingest.document) = {}

\* The step is a call of deleteDocument or of deleteAllForTenant: the other
\* operations of the knowledge base move ingest, search or an embedding call.
IsDeletion ==
    /\ UNCHANGED <<call, search>>
    /\ [ingest' EXCEPT !.purged = ingest.purged] = ingest

\* The stored document with the id belongs to the tenant.
IsOwned(documentId, tenantId) ==
    \E i \in 1..Len(documents) :
        documents[i].id = documentId /\ documents[i].tenantId = tenantId

\* C27: deleteDocument(documentId, tenantId) returns true and removes the
\* document exactly when the document is stored and belongs to tenantId;
\* otherwise it returns false and leaves the documents as they are; the index
\* is as before, and the document is no longer there for a second delete.
C27_DeleteDocumentChecksOwner ==
    [][(IsDeletion /\ out'.op = "deleteDocument") =>
        LET owned == IsOwned(out'.documentId, out'.tenantId)
        IN  /\ out'.deleted = owned
            /\ owned => documents' = SelectSeq(documents,
                                               LAMBDA d : d.id # out'.documentId)
            /\ ~owned => documents' = documents
            /\ ~owned => (chunks' = chunks /\ tenantIndex' = tenantIndex)
            /\ owned => ~deleteDocument(out'.documentId, out'.tenantId,
                                        documents').deleted]_vars

\* C27: a deleteDocument for a document of another tenant has returned false,
\* and the document is still stored.
C27_Witness ==
    /\ out.op = "deleteDocument"
    /\ ~out.deleted
    /\ \E i \in 1..Len(documents) :
            /\ documents[i].id = out.documentId
            /\ documents[i].tenantId # out.tenantId

\* C28: a deleteDocument that returns true takes the document out of the
\* documents and leaves the index as it is: the chunks of the document stay
\* in the chunk map and in the membership set of the tenant, where a search
\* finds them; a deleteAllForTenant for the tenant takes them out.
C28_DeleteDocumentKeepsChunks ==
    [][IsDeletion =>
        /\ (out'.op = "deleteDocument" /\ out'.deleted) =>
                /\ documents' = SelectSeq(documents,
                                          LAMBDA d : d.id # out'.documentId)
                /\ chunks' = chunks
                /\ tenantIndex' = tenantIndex
                /\ \A id \in DOMAIN chunks :
                        chunks[id].documentId = out'.documentId =>
                            /\ id \in DOMAIN chunks'
                            /\ id \in MembersIn(tenantIndex', chunks[id].tenantId)
        /\ out'.op = "deleteAllForTenant" =>
                \A id \in DOMAIN chunks' : chunks'[id].tenantId # out'.tenantId]_vars

\* C28: a search has returned a chunk that is in the index while its document
\* is not stored, and no ingest is under way.
C28_Witness ==
    /\ out.op = "search"
    /\ ~out.threw
    /\ ingest.pc = "idle"
    /\ Len(out.value) >= 1
    /\ out.value[1].of.id \in DOMAIN chunks
    /\ chunks[out.value[1].of.id] = out.value[1].of
    /\ \A i \in 1..Len(documents) : documents[i].id # out.value[1].of.documentId

\* The embeddings a query of the model can get: the fallback's and the remote
\* service's.
QueryEmbeddings ==
    UNION {{simpleEmbedding(q).embedding} \cup {RemoteVector(q, d) : d \in RemoteDims} :
            q \in Queries}

\* C29: right after deleteAllForTenant(t), whatever ingests and deleteDocument
\* calls came before, getDocuments(t) is empty and a search of the index for
\* t, and so a search of the knowledge base, returns an empty list.
C29_EmptyAfterDeleteAll ==
    [][(IsDeletion /\ out'.op = "deleteAllForTenant") =>
        LET after == [chunks |-> chunks', tenantIndex |-> tenantIndex',
                      uuids |-> nextUuid']
        IN  /\ getDocuments(out'.tenantId, documents') = <<>>
            /\ \A q \in QueryEmbeddings, k \in {1, 3} :
                    LET found == vectorSearch(q, out'.tenantId, 2 * k, after)
                    IN  /\ ~found.threw
                        /\ found.value = <<>>
                        /\ FilterResults(found.value, k, DefaultMinScore) = <<>>]_vars

\* C29: deleteAllForTenant has removed documents of a tenant, and neither a
\* document nor a chunk of the tenant is stored.
C29_Witness ==
    /\ out.op = "deleteAllForTenant"
    /\ out.deletedCount >= 1
    /\ getDocuments(out.tenantId, documents) = <<>>
    /\ OwnedBy(out.tenantId) = {}
    /\ ingest.pc = "idle"

\* C30: deleteAllForTenant(t) returns the number of documents of t stored
\* just before the call, and leaves the documents and the indexed chunks of
\* the other tenants as they were.
C30_DeleteAllCountsAndSpares ==
    [][(IsDeletion /\ out'.op = "deleteAllForTenant") =>
        /\ out'.deletedCount = Len(getDocuments(out'.tenantId, documents))
        /\ \A u \in Tenants \ {out'.tenantId} :
                /\ getDocuments(u, documents') = getDocuments(u, documents)
                /\ MembersIn(tenantIndex', u) = MembersIn(tenantIndex, u)
        /\ \A id \in DOMAIN chunks :
                chunks[id].tenantId # out'.tenantId =>
                    (id \in DOMAIN chunks' /\ chunks'[id] = chunks[id])]_vars

\* C30: deleteAllForTenant has removed a document of one tenant while a
\* document and a chunk of the other tenant are stored.
C30_Witness ==
    /\ out.op = "deleteAllForTenant"
    /\ out.deletedCount >= 1
    /\ \E u \in Tenants \ {out.tenantId} :
            /\ getDocuments(u, documents) # <<>>
            /\ OwnedBy(u) # {}
    /\ OwnedBy(out.tenantId) = {}


-----------------------------------------------------------------------------
(* Claims about the ingest route, checked under SpecRoute *)

\* A request as the claim describes the ones to reject: no tenantId, no or an
\* empty documents array, or a document without title, content, source or type.
IsMalformed(tenantId, isArray, items) ==
    \/ tenantId = ""
    \/ ~isArray
    \/ Len(items) = 0
    \/ \E i \in 1..Len(items) :
            items[i].title = "" \/ items[i].content = <<>>
                \/ items[i].source = "" \/ items[i].type = ""

\* C31: a malformed ingest request is answered with status 400 before any of
\* its documents is processed.  On every step of the route: an answer of the
\* route is 400 and leaves the documents, the index, the uuids and the ingest
\* frame as they were, every malformed request is answered that way, and the
\* service is called (the ingest frame leaves idle) only with a tenantId and a
\* non-empty list of documents none of which lacks a field.
C31_MalformedIngestRejected ==
    [][/\ (ingest.pc = "idle" /\ ingest'.pc # "idle") =>
            ~IsMalformed(ingest'.tenantId, TRUE, ingest'.docs)
       /\ (out'.op = "ingestRoute" /\ out' # out) =>
            /\ out'.status = 400
            /\ IsMalformed(out'.body.tenantId, out'.body.documents.isArray,
                           out'.body.documents.items)
            /\ UNCHANGED <<documents, chunks, tenantIndex, nextUuid, ingest, call>>]_vars

\* C31 witness: a request whose first document is complete and whose second
\* lacks its source was answered 400 with nothing stored, after another
\* request had been ingested.
C31_Witness ==
    /\ out.op = "ingestRoute"
    /\ out.status = 400
    /\ out.body.tenantId = "t1"
    /\ Len(out.body.documents.items) = 2
    /\ out.body.documents.items[1] = RouteDocValid
    /\ out.body.documents.items[2].source = ""
    /\ Len(documents) = 1
    /\ Cardinality(DOMAIN chunks) = 1


-----------------------------------------------------------------------------
(* Claims about the SessionService, checked under SpecSession *)

\* The ids of a list of messages, in its order.
MessageIds(messages) == [i \in 1..Len(messages) |-> messages[i].id]

\* C34: a session holds at most 20 messages, the most recently added ones in
\* the order they were added: in every state the ids of a session's messages
\* are the last 20 (or all, when fewer) of the ids pushed to it, in that order.
C34_HistoryIsLastTwenty ==
    \A id \in DOMAIN sessions :
        /\ Len(sessions[id].messages) <= 20
        /\ MessageIds(sessions[id].messages) = SliceLast(sessions[id].added, 20)

\* C34 witness: 22 messages were added to a session, which holds the last 20.
C34_Witness ==
    \E id \in DOMAIN sessions :
        /\ Len(sessions[id].added) = 22
        /\ Len(sessions[id].messages) = 20
        /\ sessions[id].messages[1].id = sessions[id].added[3]

-----------------------------------------------------------------------------
(* The chat router's claims *)

\* C32: a chat request that supplies a sessionId and is answered gets a
\* response carrying that sessionId, whatever the session was when the request
\* arrived (new, active, expired, closed or escalated).
C32_SuppliedSessionIdKept ==
    (out.op = "chat" /\ out.status = 200 /\ out.request.sessionId # "")
        => out.sessionId = out.request.sessionId

\* C32: a request naming a session that was escalated has been answered.
C32_Witness ==
    /\ out.op = "chat"
    /\ out.status = 200
    /\ out.request.sessionId = "s1"
    /\ out.request.found = "escalated"
    /\ out.sessionId = "s1"

\* The tenantId a chat request asks for: the one given, or 'default'.
RequestTenant == IF chat.tenantId = "" THEN "default" ELSE chat.tenantId

\* C33: the knowledge-base search of a chat request runs against the
\* partition of the tenantId given in the request, or 'default' when none is
\* given, also when the request names a live session of another tenant.
C33_SearchesRequestTenant ==
    chat.pc # "idle" => chat.kbQuery.tenantId = RequestTenant

\* s is the beginning of t.
StartsWith(t, s) == Len(s) <= Len(t) /\ SubSeq(t, 1, Len(s)) = s

\* C35: once a session is escalated or closed, no operation within the TTL
\* puts a session with the same id back to active or discards its messages.
C35_EscalatedOrClosedStays ==
    [][\A id \in DOMAIN sessions :
          (/\ sessions[id].status \in {"escalated", "closed"}
           /\ now - sessions[id].updatedAt < SESSION_TTL_MS)
          => /\ id \in DOMAIN sessions'
             /\ sessions'[id].status # "active"
             /\ StartsWith(sessions'[id].messages, sessions[id].messages)]_vars

\* C37: the messages handed to the LLM hold the current user message exactly
\* once, as the last entry, after the history.
C37_CurrentMessageOnce ==
    (chat.pc = "awaitReply" /\ preferredProvider # "none") =>
        LET llm == chat.llmMessages
        IN  {i \in DOMAIN llm : /\ llm[i].role = "user"
                                /\ llm[i].of \in {"", chat.userMessageId}}
            = {Len(llm)}

\* The message contains one of the escalation keywords.
ContainsKeyword(message) == \E k \in EscalationKeywords : Includes(message, k)

-----------------------------------------------------------------------------
(* A purge during an ingest, checked under Spec *)

\* C36: when an ingest for a tenant was suspended in its embedding call while
\* deleteAllForTenant ran for that tenant, then at the return of the ingest no
\* document and no chunk of the tenant is stored (no other ingest runs
\* between the purge and the return).
C36_PurgeDuringIngestLeavesNothing ==
    [][(ingest.purged /\ IngestReturns) =>
          /\ \A i \in 1..Len(documents') : documents'[i].tenantId # ingest.tenantId
          /\ \A id \in DOMAIN chunks' : chunks'[id].tenantId # ingest.tenantId]_vars

-----------------------------------------------------------------------------
(* The number of results of a search, checked under SpecIndex *)

\* C39: a search of the vector index returns at most topK results for every
\* integer topK, and none when topK is 0 or negative.
C39_AtMostTopKResults ==
    (out.op = "vectorSearch" /\ ~out.threw) =>
        Len(out.value) <= (IF out.topK > 0 THEN out.topK ELSE 0)

=============================================================================
